---- MODULE Spec2Model ----
(***************************************************************************)
(* Model of lib/service.py of chore-api: the status engine shared by       *)
(* Area/Act/ToDo/Routine, the routine/task scheduler (check, next, task    *)
(* actions) and the cascades between ToDo, Area, Act and Routine.          *)
(*                                                                         *)
(* A Python dict is a function whose DOMAIN is the set of keys present, so *)
(* `"end" in task` is "end" \in DOMAIN task and `del task["end"]` raises   *)
(* KeyError exactly when the key is absent.  A handler is an operator on a *)
(* world record W: the session's tables (W.tab), the clock (W.t), the      *)
(* notifications published so far (W.out), the value returned (W.ret),     *)
(* whether an exception is propagating (W.err) and the tables as of the    *)
(* last session.commit() (W.saved).  Ids are positions in the tables       *)
(* (autoincrement from 1); task ids are the 0-based list positions.        *)
(*                                                                         *)
(* The state is the committed database (db) and the clock.  scope is not   *)
(* program state: it names the group of endpoints a run exercises, so that *)
(* the runs explored are the union of the groups and not their product.    *)
(***************************************************************************)
EXTENDS Integers, Sequences, FiniteSets, TLC

VARIABLES db, clock, scope

vars == <<db, clock, scope>>

(* ------------------------------ bounds --------------------------------- *)

MaxTasks == 2
MaxToDo == 1
MaxAct == 1

MaxRemind == 3

(* The clock may move on after any of the first MaxDrift reads of a call.  *)
MaxDrift == 2

(* ------------------------------ dicts ---------------------------------- *)

EmptyDict == << >>

Has(d, k) == k \in DOMAIN d

Put(d, k, v) == [x \in DOMAIN d \cup {k} |-> IF x = k THEN v ELSE d[x]]

Del(d, k) == [x \in DOMAIN d \ {k} |-> d[x]]

Update(d, e) == [x \in DOMAIN d \cup DOMAIN e |-> IF x \in DOMAIN e THEN e[x] ELSE d[x]]

Truthy(d, k) == Has(d, k) /\ d[k]

(* ------------------------------ world ---------------------------------- *)

Session(tables, t, drift) ==
    [tab |-> tables, saved |-> tables, t |-> t, drift |-> drift, reads |-> 0,
     out |-> << >>, ret |-> FALSE, err |-> FALSE]

(* time.time(): the value read is W.t; the clock moves on by one right      *)
(* after the drift-th read of the request (never when drift = 0).           *)
Tock(W) ==
    [W EXCEPT !.reads = @ + 1,
              !.t = IF W.reads + 1 = W.drift THEN @ + 1 ELSE @]

Raise(W) == [W EXCEPT !.err = TRUE, !.ret = FALSE]

Return(W, v) == IF W.err THEN W ELSE [W EXCEPT !.ret = v]

(* Statement sequencing: what follows a statement runs on the world it     *)
(* leaves, unless it raised.                                               *)
Then(W, F(_)) == IF W.err THEN W ELSE F(W)

Bind(v, F(_)) == F(v)

commit(W) == [W EXCEPT !.saved = W.tab]

Get(W, kind, id) == W.tab[kind][id]

Exists(W, kind, id) == id \in DOMAIN W.tab[kind]

SetData(W, kind, id, k, v) == [W EXCEPT !.tab[kind][id].data = Put(@, k, v)]

DelData(W, kind, id, k) ==
    IF Has(Get(W, kind, id).data, k)
    THEN [W EXCEPT !.tab[kind][id].data = Del(@, k)]
    ELSE Raise(W)

SetStatus(W, kind, id, v) == [W EXCEPT !.tab[kind][id].status = v]

SetUpdated(W, kind, id, v) == [W EXCEPT !.tab[kind][id].updated = v]

notify(W, message) == [W EXCEPT !.out = Append(@, message)]

NoTask == 0 - 1

(* --------------------------- BaseStatus -------------------------------- *)

(* notify that stamps `notified` and leaves `updated` as it is.            *)
BaseStatus_notify_NoUpdated(W, kind, action, id) ==
    Then(Tock(SetData(W, kind, id, "notified", W.t)), LAMBDA A :
        IF Get(A, kind, id).person_id \in DOMAIN A.tab["person"]
        THEN notify(A, [kind |-> kind, action |-> action, id |-> id, task |-> NoTask])
        ELSE Raise(A))

BaseStatus_notify(W, kind, action, id) ==
    Then(Tock(SetData(W, kind, id, "notified", W.t)), LAMBDA A :
    Then(Tock(SetUpdated(A, kind, id, A.t)), LAMBDA B :
        IF Get(B, kind, id).person_id \in DOMAIN B.tab["person"]
        THEN notify(B, [kind |-> kind, action |-> action, id |-> id, task |-> NoTask])
        ELSE Raise(B)))

(* --------------------------- BaseValue --------------------------------- *)

BaseValue_wrong(W, kind, id) ==
    IF Get(W, kind, id).status = "positive"
    THEN Return(BaseStatus_notify(SetStatus(W, kind, id, "negative"), kind, "wrong", id), TRUE)
    ELSE Return(W, FALSE)

BaseValue_right(W, kind, id) ==
    IF Get(W, kind, id).status = "negative"
    THEN Return(BaseStatus_notify(SetStatus(W, kind, id, "positive"), kind, "right", id), TRUE)
    ELSE Return(W, FALSE)

(* --------------------------- BaseAction -------------------------------- *)

BaseAction_remind(W, kind, id) ==
    Return(BaseStatus_notify(W, kind, "remind", id), TRUE)

(* pause that reaches into a routine and pauses its tasks as well.         *)
BaseAction_pause_Tasks(W, kind, id) ==
    IF ~Truthy(Get(W, kind, id).data, "paused")
    THEN Return(BaseStatus_notify(
                  [W EXCEPT !.tab[kind][id].data =
                      IF Has(@, "tasks")
                      THEN Put(Put(@, "paused", TRUE), "tasks",
                               [i \in DOMAIN @["tasks"] |-> Put(@["tasks"][i], "paused", TRUE)])
                      ELSE Put(@, "paused", TRUE)],
                  kind, "pause", id), TRUE)
    ELSE Return(W, FALSE)

(* pause without its guard: it acts and returns true whatever the flag is. *)
BaseAction_pause_Unguarded(W, kind, id) ==
    Return(BaseStatus_notify(SetData(W, kind, id, "paused", TRUE), kind, "pause", id), TRUE)

BaseAction_pause(W, kind, id) ==
    IF ~Truthy(Get(W, kind, id).data, "paused")
    THEN Return(BaseStatus_notify(SetData(W, kind, id, "paused", TRUE), kind, "pause", id), TRUE)
    ELSE Return(W, FALSE)

(* unpause that notifies before it tests its guard.                        *)
BaseAction_unpause_Stamping(W, kind, id) ==
    IF Truthy(Get(W, kind, id).data, "paused")
    THEN Return(BaseStatus_notify(SetData(W, kind, id, "paused", FALSE), kind, "unpause", id), TRUE)
    ELSE Return(commit(BaseStatus_notify(W, kind, "unpause", id)), FALSE)

BaseAction_unpause(W, kind, id) ==
    IF Truthy(Get(W, kind, id).data, "paused")
    THEN Return(BaseStatus_notify(SetData(W, kind, id, "paused", FALSE), kind, "unpause", id), TRUE)
    ELSE Return(W, FALSE)

(* skip that sets `end` and leaves the status as it is.                    *)
BaseAction_skip_NoClose(W, kind, id) ==
    IF ~Truthy(Get(W, kind, id).data, "skipped")
    THEN Return(
           Then(SetData(W, kind, id, "skipped", TRUE), LAMBDA A :
           Then(Tock(SetData(A, kind, id, "end", A.t)), LAMBDA B :
                BaseStatus_notify(B, kind, "skip", id))), TRUE)
    ELSE Return(W, FALSE)

BaseAction_skip(W, kind, id) ==
    IF ~Truthy(Get(W, kind, id).data, "skipped")
    THEN Return(
           Then(SetData(W, kind, id, "skipped", TRUE), LAMBDA A :
           Then(Tock(SetData(A, kind, id, "end", A.t)), LAMBDA B :
                BaseStatus_notify(SetStatus(B, kind, id, "closed"), kind, "skip", id))), TRUE)
    ELSE Return(W, FALSE)

BaseAction_unskip(W, kind, id) ==
    IF Truthy(Get(W, kind, id).data, "skipped")
    THEN Return(
           Then(SetData(W, kind, id, "skipped", FALSE), LAMBDA A :
           Then(DelData(A, kind, id, "end"), LAMBDA B :
                BaseStatus_notify(SetStatus(B, kind, id, "opened"), kind, "unskip", id))), TRUE)
    ELSE Return(W, FALSE)

BaseAction_complete(W, kind, id) ==
    IF ~Has(Get(W, kind, id).data, "end") \/ Get(W, kind, id).status # "closed"
    THEN Return(
           Then(Tock(SetData(W, kind, id, "end", W.t)), LAMBDA A :
                BaseStatus_notify(SetStatus(A, kind, id, "closed"), kind, "complete", id)), TRUE)
    ELSE Return(W, FALSE)

BaseAction_uncomplete(W, kind, id) ==
    IF Has(Get(W, kind, id).data, "end") \/ Get(W, kind, id).status = "closed"
    THEN Return(
           Then(DelData(W, kind, id, "end"), LAMBDA A :
                BaseStatus_notify(SetStatus(A, kind, id, "opened"), kind, "uncomplete", id)), TRUE)
    ELSE Return(W, FALSE)

BaseAction_expire(W, kind, id) ==
    IF ~Truthy(Get(W, kind, id).data, "expired")
    THEN Return(
           Then(SetData(W, kind, id, "expired", TRUE), LAMBDA A :
           Then(Tock(SetData(A, kind, id, "end", A.t)), LAMBDA B :
                BaseStatus_notify(SetStatus(B, kind, id, "closed"), kind, "expire", id))), TRUE)
    ELSE Return(W, FALSE)

BaseAction_unexpire(W, kind, id) ==
    IF Truthy(Get(W, kind, id).data, "expired")
    THEN Return(
           Then(SetData(W, kind, id, "expired", FALSE), LAMBDA A :
           Then(DelData(A, kind, id, "end"), LAMBDA B :
                BaseStatus_notify(SetStatus(B, kind, id, "opened"), kind, "unexpire", id))), TRUE)
    ELSE Return(W, FALSE)

(* ------------------------------ build ---------------------------------- *)

(* The persons the query by name finds; .one() wants exactly one.          *)
PersonsNamed(W, name) == {p \in DOMAIN W.tab["person"] : W.tab["person"][p].name = name}

(* Promotion that prefers the merged data to the caller's kwargs.          *)
Promote_DataFirst(fields, kwargs, names) ==
    [f \in DOMAIN fields \cup {n \in names : Has(kwargs, n) \/ Has(fields["data"], n)} |->
        IF f \in names /\ Has(fields["data"], f) THEN fields["data"][f]
        ELSE IF f \in names /\ Has(kwargs, f) THEN kwargs[f]
        ELSE fields[f]]

Promote(fields, kwargs, names) ==
    [f \in DOMAIN fields \cup {n \in names : Has(kwargs, n) \/ Has(fields["data"], n)} |->
        IF f \in names /\ Has(kwargs, f) THEN kwargs[f]
        ELSE IF f \in names /\ Has(fields["data"], f) THEN fields["data"][f]
        ELSE fields[f]]

(* template: the inline one, else the stored one looked up by id.          *)
TemplateOf(W, kwargs) ==
    IF Has(kwargs, "template") THEN kwargs["template"]
    ELSE IF Has(kwargs, "template_id") /\ kwargs["template_id"] \in DOMAIN W.tab["template"]
         THEN W.tab["template"][kwargs["template_id"]].data
         ELSE EmptyDict

MergedData(template, kwargs) ==
    IF Has(kwargs, "data") THEN Update(Update(EmptyDict, template), kwargs["data"])
    ELSE Update(EmptyDict, template)

(* A lookup that lets a name no Person has pass: the fields come out       *)
(* without a person id.                                                    *)
Resolved_Lenient(W, data, kwargs) ==
    [err    |-> (~Has(kwargs, "template") /\ Has(kwargs, "template_id")
                    /\ kwargs["template_id"] \notin DOMAIN W.tab["template"]),
     fields |-> Promote(
                 IF Has(data, "person") /\ Cardinality(PersonsNamed(W, data["person"])) = 1
                 THEN [data |-> data, person_id |-> CHOOSE p \in PersonsNamed(W, data["person"]) : TRUE]
                 ELSE [data |-> data],
                 kwargs, {"person_id", "name", "status", "created", "updated"})]

Resolved(W, data, kwargs) ==
    [err    |-> \/ (~Has(kwargs, "template") /\ Has(kwargs, "template_id")
                    /\ kwargs["template_id"] \notin DOMAIN W.tab["template"])
                \/ (Has(data, "person") /\ Cardinality(PersonsNamed(W, data["person"])) # 1),
     fields |-> Promote(
                 IF Has(data, "person") /\ Cardinality(PersonsNamed(W, data["person"])) = 1
                 THEN [data |-> data, person_id |-> CHOOSE p \in PersonsNamed(W, data["person"]) : TRUE]
                 ELSE [data |-> data],
                 kwargs, {"person_id", "name", "status", "created", "updated"})]

BaseStatus_build(W, kwargs) == Resolved(W, MergedData(TemplateOf(W, kwargs), kwargs), kwargs)

(* enumerate(tasks): a task without "id" gets its 0-based position.        *)
NumberTasks(built) ==
    IF built.err \/ ~Has(built.fields["data"], "tasks") THEN built
    ELSE [built EXCEPT !.fields["data"]["tasks"] =
            [i \in DOMAIN @ |-> IF Has(@[i], "id") THEN @[i] ELSE Put(@[i], "id", i - 1)]]

(* The tasks made of the rows the query for the person's open ToDos       *)
(* returned, in the order it returned them.                                *)
ToDoTasks(W, order) ==
    [i \in DOMAIN order |-> [text |-> Get(W, "todo", order[i]).data["text"], todo |-> order[i]]]

(* The ToDos' tasks put after the supplied tasks instead of ahead of them. *)
PrependToDos_Append(W, built, order) ==
    IF built.err \/ ~Truthy(built.fields["data"], "todos") THEN built
    ELSE IF ~Has(built.fields, "person_id") THEN [built EXCEPT !.err = TRUE]
    ELSE IF \E i \in DOMAIN order : ~Has(Get(W, "todo", order[i]).data, "text")
         THEN [built EXCEPT !.err = TRUE]
    ELSE [built EXCEPT !.fields["data"] =
            Put(@, "tasks", (IF Has(@, "tasks") THEN @["tasks"] ELSE << >>) \o ToDoTasks(W, order))]

(* if fields["data"].get("todos"): fields["person_id"] and todo.data["text"] *)
(* raise KeyError when absent.                                             *)
PrependToDos(W, built, order) ==
    IF built.err \/ ~Truthy(built.fields["data"], "todos") THEN built
    ELSE IF ~Has(built.fields, "person_id") THEN [built EXCEPT !.err = TRUE]
    ELSE IF \E i \in DOMAIN order : ~Has(Get(W, "todo", order[i]).data, "text")
         THEN [built EXCEPT !.err = TRUE]
    ELSE [built EXCEPT !.fields["data"] =
            Put(@, "tasks", ToDoTasks(W, order) \o (IF Has(@, "tasks") THEN @["tasks"] ELSE << >>))]

(* order is what the query for the open ToDos returned.                    *)
RoutineAction_build(W, kwargs, order) ==
    NumberTasks(PrependToDos(W, BaseStatus_build(W, kwargs), order))

(* The row the mysql model constructor makes of the built fields.          *)
Model(kind, fields, t) ==
    [person_id |-> IF Has(fields, "person_id") THEN fields["person_id"] ELSE 0,
     name      |-> IF Has(fields, "name") THEN fields["name"] ELSE "",
     status    |-> IF Has(fields, "status") THEN fields["status"]
                   ELSE IF kind \in {"area", "act"} THEN "positive" ELSE "opened",
     created   |-> IF Has(fields, "created") THEN fields["created"] ELSE t,
     updated   |-> IF Has(fields, "updated") THEN fields["updated"]
                   ELSE IF Has(fields, "created") THEN fields["created"] ELSE t,
     data      |-> fields["data"]]

add(W, kind, model) == [W EXCEPT !.tab[kind] = Append(@, model)]

NewId(W, kind) == Len(W.tab[kind]) + 1

BaseStatus_create(W, kind, kwargs) ==
    Bind(BaseStatus_build(W, kwargs), LAMBDA built :
        IF built.err THEN Raise(W)
        ELSE BaseStatus_notify(commit(add(W, kind, Model(kind, built.fields, W.t))),
                               kind, "create", NewId(W, kind)))

(* ----------------------- Area / Act / ToDo ----------------------------- *)

ToDoAction_create(W, kwargs) == BaseStatus_create(W, "todo", kwargs)

(* wrong that stops at the Area and creates nothing.                       *)
AreaValue_wrong_NoToDo(W, id) == BaseValue_wrong(W, "area", id)

AreaValue_wrong(W, id) ==
    IF Get(W, "area", id).status = "positive"
    THEN Return(
           Then(BaseStatus_notify(SetStatus(W, "area", id, "negative"), "area", "wrong", id), LAMBDA A :
                IF Has(Get(A, "area", id).data, "todo")
                THEN ToDoAction_create(A, [person_id |-> Get(A, "area", id).person_id,
                                           data      |-> [area |-> id],
                                           template  |-> Get(A, "area", id).data["todo"]])
                ELSE A), TRUE)
    ELSE Return(W, FALSE)

(* right without its guard: it notifies whatever the Area's status is.     *)
AreaValue_right_Unguarded(W, id) ==
    Return(BaseStatus_notify(SetStatus(W, "area", id, "positive"), "area", "right", id), TRUE)

AreaValue_right(W, id) == BaseValue_right(W, "area", id)

(* create that makes the ToDo whenever the payload has `todo`, whatever    *)
(* the new Act's status.                                                   *)
ActValue_create_AnyStatus(W, kwargs) ==
    Bind(BaseStatus_build(W, kwargs), LAMBDA built :
        IF built.err THEN Raise(W)
        ELSE Then(BaseStatus_notify(commit(add(W, "act", Model("act", built.fields, W.t))),
                                    "act", "create", NewId(W, "act")), LAMBDA A :
                IF Has(Get(A, "act", NewId(W, "act")).data, "todo")
                THEN ToDoAction_create(A, [person_id |-> Get(A, "act", NewId(W, "act")).person_id,
                                           template  |-> Get(A, "act", NewId(W, "act")).data["todo"]])
                ELSE A))

ActValue_create(W, kwargs) ==
    Bind(BaseStatus_build(W, kwargs), LAMBDA built :
        IF built.err THEN Raise(W)
        ELSE Then(BaseStatus_notify(commit(add(W, "act", Model("act", built.fields, W.t))),
                                    "act", "create", NewId(W, "act")), LAMBDA A :
                IF Get(A, "act", NewId(W, "act")).status = "negative"
                   /\ Has(Get(A, "act", NewId(W, "act")).data, "todo")
                THEN ToDoAction_create(A, [person_id |-> Get(A, "act", NewId(W, "act")).person_id,
                                           template  |-> Get(A, "act", NewId(W, "act")).data["todo"]])
                ELSE A))

ActValue_wrong(W, id) == BaseValue_wrong(W, "act", id)

ActValue_right(W, id) == BaseValue_right(W, "act", id)

(* filter_by(person_id=person_id, status="opened")                         *)
(* The person's ToDos whatever their status.                               *)
OpenToDos_AnyStatus(tables, person_id) ==
    {id \in DOMAIN tables["todo"] : tables["todo"][id].person_id = person_id}

OpenToDos(tables, person_id) ==
    {id \in DOMAIN tables["todo"] :
        tables["todo"][id].person_id = person_id /\ tables["todo"][id].status = "opened"}

(* order_by(created.desc()).all(): the rows in an order of non-increasing  *)
(* `created`; the engine may return rows of equal `created` in any order.  *)
ToDo_order_by(tables, ids) ==
    {order \in [1..Cardinality(ids) -> ids] :
        /\ \A i, j \in DOMAIN order : i # j => order[i] # order[j]
        /\ \A i, j \in DOMAIN order :
              i < j => tables["todo"][order[i]].created >= tables["todo"][order[j]].created}

(* The person remind-all is for: by name (.one()) or by id; 0 when the     *)
(* lookup raises.                                                          *)
PersonOf(W, data) ==
    IF Has(data, "person")
    THEN IF Cardinality(PersonsNamed(W, data["person"])) = 1
         THEN CHOOSE p \in PersonsNamed(W, data["person"]) : TRUE
         ELSE 0
    ELSE IF Has(data, "person_id") THEN data["person_id"] ELSE 0

RECURSIVE StampAll(_, _)
StampAll(W, order) ==
    IF order = << >> THEN W
    ELSE Bind(Tock(SetData(W, "todo", Head(order), "notified", W.t)), LAMBDA A :
              StampAll(Tock(SetUpdated(A, "todo", Head(order), A.t)), Tail(order)))

(* order is what the query returned, one of ToDo_order_by.                 *)
ToDoAction_todos(W, data, order) ==
    IF PersonOf(W, data) = 0 THEN Raise(W)
    ELSE IF order = << >> THEN Return(W, FALSE)
    ELSE IF PersonOf(W, data) \notin DOMAIN W.tab["person"] THEN Raise(StampAll(W, order))
    ELSE Return(commit(notify(StampAll(W, order),
                    [kind |-> "todos", action |-> "remind", id |-> PersonOf(W, data),
                     task |-> NoTask, todos |-> order])), TRUE)

ToDoCL_patch(W, data, order) ==
    Then(ToDoAction_todos(W, data, order), LAMBDA A : IF A.ret THEN commit(A) ELSE A)

(* complete that skips the Area cascade when the Area is not there.        *)
ToDoAction_complete_SkipMissing(W, id) ==
    IF ~Has(Get(W, "todo", id).data, "end") \/ Get(W, "todo", id).status # "closed"
    THEN Return(
           Then(Tock(SetData(W, "todo", id, "end", W.t)), LAMBDA A :
           Then(BaseStatus_notify(SetStatus(A, "todo", id, "closed"), "todo", "complete", id), LAMBDA B :
           Then(IF Has(Get(B, "todo", id).data, "area") /\ Exists(B, "area", Get(B, "todo", id).data["area"])
                THEN AreaValue_right(B, Get(B, "todo", id).data["area"])
                ELSE B, LAMBDA C :
                IF Has(Get(C, "todo", id).data, "act")
                THEN ActValue_create(C, [person_id |-> Get(C, "todo", id).person_id,
                                         status    |-> "positive",
                                         template  |-> Get(C, "todo", id).data["act"]])
                ELSE C))), TRUE)
    ELSE Return(W, FALSE)

(* complete that creates the Act with the status its template names.       *)
ToDoAction_complete_TemplateStatus(W, id) ==
    IF ~Has(Get(W, "todo", id).data, "end") \/ Get(W, "todo", id).status # "closed"
    THEN Return(
           Then(Tock(SetData(W, "todo", id, "end", W.t)), LAMBDA A :
           Then(BaseStatus_notify(SetStatus(A, "todo", id, "closed"), "todo", "complete", id), LAMBDA B :
           Then(IF Has(Get(B, "todo", id).data, "area")
                THEN IF Exists(B, "area", Get(B, "todo", id).data["area"])
                     THEN AreaValue_right(B, Get(B, "todo", id).data["area"])
                     ELSE Raise(B)
                ELSE B, LAMBDA C :
                IF Has(Get(C, "todo", id).data, "act")
                THEN ActValue_create(C, [person_id |-> Get(C, "todo", id).person_id,
                                         template  |-> Get(C, "todo", id).data["act"]])
                ELSE C))), TRUE)
    ELSE Return(W, FALSE)

ToDoAction_complete(W, id) ==
    IF ~Has(Get(W, "todo", id).data, "end") \/ Get(W, "todo", id).status # "closed"
    THEN Return(
           Then(Tock(SetData(W, "todo", id, "end", W.t)), LAMBDA A :
           Then(BaseStatus_notify(SetStatus(A, "todo", id, "closed"), "todo", "complete", id), LAMBDA B :
           Then(IF Has(Get(B, "todo", id).data, "area")
                THEN IF Exists(B, "area", Get(B, "todo", id).data["area"])
                     THEN AreaValue_right(B, Get(B, "todo", id).data["area"])
                     ELSE Raise(B)
                ELSE B, LAMBDA C :
                IF Has(Get(C, "todo", id).data, "act")
                THEN ActValue_create(C, [person_id |-> Get(C, "todo", id).person_id,
                                         status    |-> "positive",
                                         template  |-> Get(C, "todo", id).data["act"]])
                ELSE C))), TRUE)
    ELSE Return(W, FALSE)

(* ------------------------------ tasks ---------------------------------- *)

Tasks(W, rid) == Get(W, "routine", rid).data["tasks"]

Task(W, rid, i) == Tasks(W, rid)[i]

(* tasks[i] = {k: v} instead of task[k] = v: the task is made anew.        *)
SetTask_Fresh(W, rid, i, k, v) ==
    [W EXCEPT !.tab["routine"][rid].data["tasks"][i] = Put(EmptyDict, k, v)]

SetTask(W, rid, i, k, v) ==
    [W EXCEPT !.tab["routine"][rid].data["tasks"][i] = Put(@, k, v)]

DelTask(W, rid, i, k) ==
    IF Has(Task(W, rid, i), k)
    THEN [W EXCEPT !.tab["routine"][rid].data["tasks"][i] = Del(@, k)]
    ELSE Raise(W)

Active(task) == Has(task, "start") /\ ~Has(task, "end")

Pending(task) == ~Has(task, "start")

TaskAction_notify(W, action, i, rid) ==
    Then(Tock(SetData(W, "routine", rid, "notified", W.t)), LAMBDA A :
    Then(Tock(SetUpdated(A, "routine", rid, A.t)), LAMBDA B :
    Then(Tock(SetTask(B, rid, i, "notified", B.t)), LAMBDA C :
        IF Get(C, "routine", rid).person_id \in DOMAIN C.tab["person"]
        THEN notify(C, [kind |-> "task", action |-> action, id |-> rid, task |-> i - 1])
        ELSE Raise(C))))

(* ------------------------- RoutineAction ------------------------------- *)

(* The last pending task instead of the first.                             *)
LastPending(tasks) ==
    CHOOSE i \in DOMAIN tasks :
        Pending(tasks[i]) /\ \A j \in DOMAIN tasks : j > i => ~Pending(tasks[j])

(* The first task, in list order, that the test holds of.                  *)
FirstPending(tasks) ==
    CHOOSE i \in DOMAIN tasks :
        Pending(tasks[i]) /\ \A j \in DOMAIN tasks : j < i => ~Pending(tasks[j])

FirstActive(tasks) ==
    CHOOSE i \in DOMAIN tasks :
        Active(tasks[i]) /\ \A j \in DOMAIN tasks : j < i => ~Active(tasks[j])

(* check() without the roll-up: it starts the next task and never         *)
(* completes the routine.                                                  *)
RoutineAction_check_NoRollUp(W, rid) ==
    IF ~Has(Get(W, "routine", rid).data, "tasks") THEN W
    ELSE IF \E i \in DOMAIN Tasks(W, rid) : Active(Tasks(W, rid)[i]) THEN W
    ELSE IF \E i \in DOMAIN Tasks(W, rid) : Pending(Tasks(W, rid)[i])
         THEN Bind(FirstPending(Tasks(W, rid)), LAMBDA i :
              Then(Tock(SetTask(W, rid, i, "start", W.t)), LAMBDA A :
                   TaskAction_notify(A, IF Truthy(Task(A, rid, i), "paused") THEN "pause" ELSE "start",
                                     i, rid)))
         ELSE W

(* check() that announces every task it starts as 'start', paused or not. *)
RoutineAction_check_AlwaysStart(W, rid) ==
    IF ~Has(Get(W, "routine", rid).data, "tasks") THEN W
    ELSE IF \E i \in DOMAIN Tasks(W, rid) : Active(Tasks(W, rid)[i]) THEN W
    ELSE IF \E i \in DOMAIN Tasks(W, rid) : Pending(Tasks(W, rid)[i])
         THEN Bind(FirstPending(Tasks(W, rid)), LAMBDA i :
              Then(Tock(SetTask(W, rid, i, "start", W.t)), LAMBDA A :
                   TaskAction_notify(A, "start", i, rid)))
         ELSE BaseAction_complete(W, "routine", rid)

(* check() without its test for an active task: it starts the next pending *)
(* task whenever there is one.                                             *)
RoutineAction_check_NoActiveTest(W, rid) ==
    IF ~Has(Get(W, "routine", rid).data, "tasks") THEN W
    ELSE IF \E i \in DOMAIN Tasks(W, rid) : Pending(Tasks(W, rid)[i])
         THEN Bind(FirstPending(Tasks(W, rid)), LAMBDA i :
              Then(Tock(SetTask(W, rid, i, "start", W.t)), LAMBDA A :
                   TaskAction_notify(A, IF Truthy(Task(A, rid, i), "paused") THEN "pause" ELSE "start",
                                     i, rid)))
         ELSE IF \E i \in DOMAIN Tasks(W, rid) : Active(Tasks(W, rid)[i]) THEN W
         ELSE BaseAction_complete(W, "routine", rid)

(* check() that leaves a routine with an empty task list as it is.         *)
RoutineAction_check_EmptyOpen(W, rid) ==
    IF ~Has(Get(W, "routine", rid).data, "tasks") \/ Tasks(W, rid) = << >> THEN W
    ELSE IF \E i \in DOMAIN Tasks(W, rid) : Active(Tasks(W, rid)[i]) THEN W
    ELSE IF \E i \in DOMAIN Tasks(W, rid) : Pending(Tasks(W, rid)[i])
         THEN Bind(FirstPending(Tasks(W, rid)), LAMBDA i :
              Then(Tock(SetTask(W, rid, i, "start", W.t)), LAMBDA A :
                   TaskAction_notify(A, IF Truthy(Task(A, rid, i), "paused") THEN "pause" ELSE "start",
                                     i, rid)))
         ELSE BaseAction_complete(W, "routine", rid)

RoutineAction_check(W, rid) ==
    IF ~Has(Get(W, "routine", rid).data, "tasks") THEN W
    ELSE IF \E i \in DOMAIN Tasks(W, rid) : Active(Tasks(W, rid)[i]) THEN W
    ELSE IF \E i \in DOMAIN Tasks(W, rid) : Pending(Tasks(W, rid)[i])
         THEN Bind(FirstPending(Tasks(W, rid)), LAMBDA i :
              Then(Tock(SetTask(W, rid, i, "start", W.t)), LAMBDA A :
                   TaskAction_notify(A, IF Truthy(Task(A, rid, i), "paused") THEN "pause" ELSE "start",
                                     i, rid)))
         ELSE BaseAction_complete(W, "routine", rid)

(* What the query in build can return: the resolved person's open ToDos in *)
(* an order of non-increasing `created`; nothing is queried without        *)
(* `todos` in the merged data.                                             *)
ToDosQueried(W, kwargs) ==
    Bind(BaseStatus_build(W, kwargs), LAMBDA built :
        IF built.err \/ ~Truthy(built.fields["data"], "todos") \/ ~Has(built.fields, "person_id")
        THEN {<< >>}
        ELSE ToDo_order_by(W.tab, OpenToDos(W.tab, built.fields["person_id"])))

RoutineAction_create(W, kwargs, order) ==
    Bind(RoutineAction_build(W, kwargs, order), LAMBDA built :
        IF built.err THEN Raise(W)
        ELSE Then(commit(add(W, "routine", Model("routine", built.fields, W.t))), LAMBDA A :
             Then(Tock(SetData(A, "routine", NewId(W, "routine"), "start", A.t)), LAMBDA B :
             Then(BaseStatus_notify(B, "routine", "create", NewId(W, "routine")), LAMBDA C :
             Then(RoutineAction_check(C, NewId(W, "routine")), LAMBDA D :
                  commit(D))))))

(* ------------------------- TaskAction ---------------------------------- *)

TaskAction_remind(W, i, rid) ==
    Return(TaskAction_notify(W, "remind", i, rid), TRUE)

TaskAction_pause(W, i, rid) ==
    IF ~Truthy(Task(W, rid, i), "paused")
    THEN Return(TaskAction_notify(SetTask(W, rid, i, "paused", TRUE), "pause", i, rid), TRUE)
    ELSE Return(W, FALSE)

TaskAction_unpause(W, i, rid) ==
    IF Truthy(Task(W, rid, i), "paused")
    THEN Return(TaskAction_notify(SetTask(W, rid, i, "paused", FALSE), "unpause", i, rid), TRUE)
    ELSE Return(W, FALSE)

(* if "start" not in task: task["start"] = task["end"]                     *)
StartAtEnd(W, rid, i) ==
    IF ~Has(Task(W, rid, i), "start")
    THEN SetTask(W, rid, i, "start", Task(W, rid, i)["end"])
    ELSE W

TaskAction_skip(W, i, rid) ==
    IF ~Truthy(Task(W, rid, i), "skipped")
    THEN Return(
           Then(SetTask(W, rid, i, "skipped", TRUE), LAMBDA A :
           Then(Tock(SetTask(A, rid, i, "end", A.t)), LAMBDA B :
           Then(TaskAction_notify(StartAtEnd(B, rid, i), "skip", i, rid), LAMBDA C :
                RoutineAction_check(C, rid)))), TRUE)
    ELSE Return(W, FALSE)

TaskAction_unskip(W, i, rid) ==
    IF Truthy(Task(W, rid, i), "skipped")
    THEN Return(
           Then(SetTask(W, rid, i, "skipped", FALSE), LAMBDA A :
           Then(DelTask(A, rid, i, "end"), LAMBDA B :
           Then(TaskAction_notify(B, "unskip", i, rid), LAMBDA C :
                BaseAction_uncomplete(C, "routine", rid)))), TRUE)
    ELSE Return(W, FALSE)

(* complete that completes the linked ToDo before it calls check().       *)
TaskAction_complete_ToDoFirst(W, i, rid) ==
    IF ~Has(Task(W, rid, i), "end")
    THEN Return(
           Then(Tock(SetTask(W, rid, i, "end", W.t)), LAMBDA A :
           Then(TaskAction_notify(StartAtEnd(A, rid, i), "complete", i, rid), LAMBDA B :
           Then(IF Has(Task(B, rid, i), "todo")
                THEN IF Exists(B, "todo", Task(B, rid, i)["todo"])
                     THEN ToDoAction_complete(B, Task(B, rid, i)["todo"])
                     ELSE Raise(B)
                ELSE B, LAMBDA C :
                RoutineAction_check(C, rid)))), TRUE)
    ELSE Return(W, FALSE)

TaskAction_complete(W, i, rid) ==
    IF ~Has(Task(W, rid, i), "end")
    THEN Return(
           Then(Tock(SetTask(W, rid, i, "end", W.t)), LAMBDA A :
           Then(TaskAction_notify(StartAtEnd(A, rid, i), "complete", i, rid), LAMBDA B :
           Then(RoutineAction_check(B, rid), LAMBDA C :
                IF Has(Task(C, rid, i), "todo")
                THEN IF Exists(C, "todo", Task(C, rid, i)["todo"])
                     THEN ToDoAction_complete(C, Task(C, rid, i)["todo"])
                     ELSE Raise(C)
                ELSE C))), TRUE)
    ELSE Return(W, FALSE)

(* uncomplete that stops at the routine and leaves the linked ToDo alone.  *)
TaskAction_uncomplete_NoToDo(W, i, rid) ==
    IF Has(Task(W, rid, i), "end")
    THEN Return(
           Then(DelTask(W, rid, i, "end"), LAMBDA A :
           Then(TaskAction_notify(A, "uncomplete", i, rid), LAMBDA B :
                BaseAction_uncomplete(B, "routine", rid))), TRUE)
    ELSE Return(W, FALSE)

(* uncomplete that reopens the task and the linked ToDo and leaves the     *)
(* routine closed.                                                         *)
TaskAction_uncomplete_NoReopen(W, i, rid) ==
    IF Has(Task(W, rid, i), "end")
    THEN Return(
           Then(DelTask(W, rid, i, "end"), LAMBDA A :
           Then(TaskAction_notify(A, "uncomplete", i, rid), LAMBDA B :
                IF Has(Task(B, rid, i), "todo")
                THEN IF Exists(B, "todo", Task(B, rid, i)["todo"])
                     THEN BaseAction_uncomplete(B, "todo", Task(B, rid, i)["todo"])
                     ELSE Raise(B)
                ELSE B)), TRUE)
    ELSE Return(W, FALSE)

TaskAction_uncomplete(W, i, rid) ==
    IF Has(Task(W, rid, i), "end")
    THEN Return(
           Then(DelTask(W, rid, i, "end"), LAMBDA A :
           Then(TaskAction_notify(A, "uncomplete", i, rid), LAMBDA B :
           Then(BaseAction_uncomplete(B, "routine", rid), LAMBDA C :
                IF Has(Task(C, rid, i), "todo")
                THEN IF Exists(C, "todo", Task(C, rid, i)["todo"])
                     THEN BaseAction_uncomplete(C, "todo", Task(C, rid, i)["todo"])
                     ELSE Raise(C)
                ELSE C))), TRUE)
    ELSE Return(W, FALSE)

(* next that holds back while the routine or its active task is paused.   *)
RoutineAction_next_HeedsPause(W, rid) ==
    IF ~Has(Get(W, "routine", rid).data, "tasks") THEN Raise(W)
    ELSE IF \E i \in DOMAIN Tasks(W, rid) : Active(Tasks(W, rid)[i])
         THEN IF Truthy(Get(W, "routine", rid).data, "paused")
                 \/ Truthy(Tasks(W, rid)[FirstActive(Tasks(W, rid))], "paused")
              THEN Return(W, FALSE)
              ELSE Return(TaskAction_complete(W, FirstActive(Tasks(W, rid)), rid), TRUE)
         ELSE Return(W, FALSE)

(* routine.data["tasks"] raises KeyError when the routine has no task list *)
RoutineAction_next(W, rid) ==
    IF ~Has(Get(W, "routine", rid).data, "tasks") THEN Raise(W)
    ELSE IF \E i \in DOMAIN Tasks(W, rid) : Active(Tasks(W, rid)[i])
         THEN Return(TaskAction_complete(W, FirstActive(Tasks(W, rid)), rid), TRUE)
         ELSE Return(W, FALSE)

(* ----------------------------- dispatch -------------------------------- *)

StatusACTIONS == {"remind", "pause", "unpause", "skip", "unskip",
                  "complete", "uncomplete", "expire", "unexpire"}

RoutineACTIONS == StatusACTIONS \cup {"next"}

ValueACTIONS == {"right", "wrong"}

TaskACTIONS == {"remind", "pause", "unpause", "skip", "unskip", "complete", "uncomplete"}

ActionsOf(kind) ==
    CASE kind = "routine" -> RoutineACTIONS
      [] kind = "todo"    -> StatusACTIONS
      [] OTHER            -> ValueACTIONS

(* getattr(self, action)(model) along each class's method resolution.      *)
getattr(W, kind, action, id) ==
    CASE action = "right"      -> BaseValue_right(W, kind, id)
      [] action = "wrong"      -> IF kind = "area" THEN AreaValue_wrong(W, id)
                                  ELSE BaseValue_wrong(W, kind, id)
      [] action = "next"       -> RoutineAction_next(W, id)
      [] action = "remind"     -> BaseAction_remind(W, kind, id)
      [] action = "pause"      -> BaseAction_pause(W, kind, id)
      [] action = "unpause"    -> BaseAction_unpause(W, kind, id)
      [] action = "skip"       -> BaseAction_skip(W, kind, id)
      [] action = "unskip"     -> BaseAction_unskip(W, kind, id)
      [] action = "complete"   -> IF kind = "todo" THEN ToDoAction_complete(W, id)
                                  ELSE BaseAction_complete(W, kind, id)
      [] action = "uncomplete" -> BaseAction_uncomplete(W, kind, id)
      [] action = "expire"     -> BaseAction_expire(W, kind, id)
      [] action = "unexpire"   -> BaseAction_unexpire(W, kind, id)

(* patch that dispatches the action and never commits.                     *)
BaseStatus_patch_NoCommit(W, kind, action, id) ==
    IF ~Exists(W, kind, id) THEN Raise(W)
    ELSE getattr(W, kind, action, id)

BaseStatus_patch(W, kind, action, id) ==
    IF ~Exists(W, kind, id) THEN Raise(W)
    ELSE Then(getattr(W, kind, action, id), LAMBDA A : IF A.ret THEN commit(A) ELSE A)

getattr_task(W, action, i, rid) ==
    CASE action = "remind"     -> TaskAction_remind(W, i, rid)
      [] action = "pause"      -> TaskAction_pause(W, i, rid)
      [] action = "unpause"    -> TaskAction_unpause(W, i, rid)
      [] action = "skip"       -> TaskAction_skip(W, i, rid)
      [] action = "unskip"     -> TaskAction_unskip(W, i, rid)
      [] action = "complete"   -> TaskAction_complete(W, i, rid)
      [] action = "uncomplete" -> TaskAction_uncomplete(W, i, rid)

(* routine.data["tasks"][task_id]: KeyError / IndexError when there is no  *)
(* such task; task_id is the 0-based position.                             *)
TaskAction_patch(W, rid, task_id, action) ==
    IF ~Exists(W, "routine", rid) THEN Raise(W)
    ELSE IF ~Has(Get(W, "routine", rid).data, "tasks") THEN Raise(W)
    ELSE IF task_id + 1 \notin DOMAIN Tasks(W, rid) THEN Raise(W)
    ELSE Then(getattr_task(W, action, task_id + 1, rid), LAMBDA A : IF A.ret THEN commit(A) ELSE A)

(* --------------------------- state machine ----------------------------- *)

Person1 == 1

(* "todo": the status verbs on ToDos; "value": Areas, Acts and the ToDos   *)
(* linked to them; "task": the task verbs and next; "routine": the routine *)
(* verbs with the task verbs that reach into the routine; "cascade": tasks *)
(* linked to ToDos; "build": routines whose supplied tasks carry an id;     *)
(* "remind": remind-all over the ToDos of two persons; "todos": routines   *)
(* built from the open ToDos of a person; "merge": ToDos built from a      *)
(* template, inline data and a person given by id or by name; "chain": a   *)
(* task linked to a ToDo that is linked to an Area and carries an Act.     *)
Scopes == {"todo", "value", "task", "routine", "cascade", "build", "remind", "todos", "merge", "chain"}

TaskVerbs(sc) ==
    CASE sc = "task"  -> TaskACTIONS
      [] sc = "build" -> {"complete"}
      [] sc = "todos" -> {}
      [] sc = "chain" -> {"complete", "uncomplete"}
      [] OTHER        -> {"skip", "unskip", "complete", "uncomplete"}

RoutineVerbs(sc) ==
    CASE sc = "routine" -> RoutineACTIONS
      [] sc = "todos"   -> {}
      [] OTHER          -> {"next"}

ToDoVerbs(sc) ==
    CASE sc = "todo"  -> StatusACTIONS
      [] sc = "merge" -> {"skip", "complete"}
      [] OTHER        -> {"complete", "uncomplete"}

TaskInputs(sc) ==
    CASE sc = "task"    -> {[text |-> "do it"], [text |-> "moo it", paused |-> TRUE]}
      [] sc = "cascade" -> {[text |-> "do it"], [text |-> "todo it", todo |-> 1]}
      [] sc = "chain"   -> {[text |-> "do it"], [text |-> "todo it", todo |-> 1]}
      [] sc = "build"   -> {[text |-> "do it"], [text |-> "id it", id |-> 0]}
      [] sc = "todos"   -> {[text |-> "do it"], [text |-> "id it", id |-> 0]}
      [] OTHER          -> {[text |-> "do it"]}

TaskLists(sc) == UNION {[1..n -> TaskInputs(sc)] : n \in 0..MaxTasks}

RoutineDatas(sc) ==
    IF sc = "todos"
    THEN {[text |-> "hey", todos |-> TRUE], [text |-> "hey", todos |-> FALSE, tasks |-> <<[text |-> "do it"]>>]}
         \cup {[text |-> "hey", todos |-> TRUE, tasks |-> ts] : ts \in TaskLists(sc)}
    ELSE {[text |-> "hey"]} \cup {[text |-> "hey", tasks |-> ts] : ts \in TaskLists(sc)}

ToDoDatas(sc) ==
    IF sc = "value"
    THEN {[text |-> "todo it", area |-> 1],
          [text |-> "todo it", act |-> [name |-> "did it"]],
          [text |-> "todo it", act |-> [name |-> "did it", status |-> "negative",
                                        todo |-> [text |-> "redo it"]]]}
    ELSE IF sc = "chain"
    THEN {[text |-> "todo it"],
          [text |-> "todo it", area |-> 1,
           act |-> [name |-> "did it", status |-> "negative", todo |-> [text |-> "redo it"]]]}
    ELSE {[text |-> "todo it"]}

(* What the caller of ToDo create passes: in "remind" and "todos" for      *)
(* either person and with a `created` of its own, in "todos" also as a row *)
(* that is closed and ended; in "merge" with a template, a person given by *)
(* name, by id or both, and an Area that is not there.                     *)
ToDoKwargs(sc) ==
    CASE sc = "remind" ->
           {[person_id |-> p, created |-> c, data |-> d] : p \in {1, 2}, c \in {6, 7}, d \in ToDoDatas(sc)}
      [] sc = "todos" ->
           {[person_id |-> 1, created |-> 6, data |-> [text |-> "todo it"]],
            [person_id |-> 1, created |-> 7, data |-> [text |-> "redo it"]],
            [person_id |-> 1, created |-> 6, status |-> "closed", data |-> [text |-> "did it", end |-> 6]],
            [person_id |-> 2, created |-> 6, data |-> [text |-> "their it"]]}
      [] sc = "merge" ->
           {[data |-> [text |-> "todo it", person |-> "unit"]],
            [data |-> [text |-> "todo it", person |-> "nobody"]],
            [person_id |-> 2, data |-> [text |-> "todo it", person |-> "unit"]],
            [person_id |-> 1, data |-> [text |-> "todo it", person |-> "nobody"]],
            [person_id |-> 1, name |-> "kwargs",
             template |-> [text |-> "template", name |-> "template",
                           act |-> [name |-> "did it", text |-> "well"]],
             data |-> [text |-> "todo it", act |-> [name |-> "done"]]],
            [person_id |-> 1, data |-> [text |-> "todo it", area |-> 1]]}
      [] OTHER ->
           {[person_id |-> Person1, data |-> d] : d \in ToDoDatas(sc)}

RemindDatas == {[person |-> "unit"], [person_id |-> 1], [person_id |-> 2]}

AreaDatas == {[text |-> "area"], [text |-> "area", todo |-> [text |-> "fix it"]]}

ActDatas == {[text |-> "hey"], [text |-> "hey", todo |-> [text |-> "test"]]}

InBounds(W) ==
    /\ Len(W.tab["todo"]) <= IF scope \in {"remind", "todos"} THEN MaxRemind ELSE MaxToDo
    /\ Len(W.tab["act"]) <= MaxAct

(* A request starts a session on the database.                             *)
Begin == Session(db, clock, 0)

(* A request that starts once the clock has moved on.                      *)
Later == Session(db, clock + 1, 0)

(* The same request made right after a request that ended as W.            *)
Again(W) == Session(W.saved, W.t, 0)

(* What a request leaves behind: the tables as of its last commit (the     *)
(* session is closed without one otherwise) and the clock.                 *)
Done(W) ==
    /\ InBounds(W)
    /\ db' = W.saved
    /\ clock' = W.t
    /\ UNCHANGED scope

Init ==
    /\ db = [person   |-> <<[name |-> "unit"], [name |-> "test"]>>,
             template |-> << >>,
             area     |-> << >>,
             act      |-> << >>,
             todo     |-> << >>,
             routine  |-> << >>]
    /\ clock = 1
    /\ scope \in Scopes

PostArea ==
    /\ scope \in {"value", "chain"}
    /\ Len(db["area"]) < 1
    /\ \E data \in AreaDatas, status \in {"positive", "negative"} :
         Done(BaseStatus_create(Begin, "area",
                 [person_id |-> Person1, status |-> status, data |-> data]))

CreateAct ==
    /\ scope = "value"
    /\ Len(db["act"]) < MaxAct
    /\ \E data \in ActDatas, status \in {"positive", "negative"} :
         Done(ActValue_create(Begin, [person_id |-> Person1, status |-> status, data |-> data]))

PostToDo ==
    /\ scope \in {"todo", "value", "cascade", "remind", "todos", "merge", "chain"}
    /\ Len(db["todo"]) < IF scope \in {"remind", "todos"} THEN MaxRemind ELSE MaxToDo
    /\ \E kwargs \in ToDoKwargs(scope) :
         /\ (scope \in {"value", "chain"} /\ Has(kwargs["data"], "area")) => kwargs["data"]["area"] \in DOMAIN db["area"]
         /\ Done(ToDoAction_create(Begin, kwargs))

RemindAll ==
    /\ scope = "remind"
    /\ \E data \in RemindDatas :
         \E order \in ToDo_order_by(db, OpenToDos(db, PersonOf(Begin, data))) :
             Done(ToDoCL_patch(Begin, data, order))

CreateRoutine ==
    /\ scope \in {"task", "routine", "cascade", "build", "todos", "chain"}
    /\ Len(db["routine"]) < 1
    /\ \E data \in RoutineDatas(scope) :
         /\ Has(data, "tasks") =>
              \A i \in DOMAIN data["tasks"] :
                  Has(data["tasks"][i], "todo") => data["tasks"][i]["todo"] \in DOMAIN db["todo"]
         /\ \E order \in ToDosQueried(Begin, [person_id |-> Person1, data |-> data]) :
                Done(RoutineAction_create(Begin, [person_id |-> Person1, data |-> data], order))

PatchArea ==
    \E id \in DOMAIN db["area"], action \in ValueACTIONS :
        Done(BaseStatus_patch(Begin, "area", action, id))

PatchAct ==
    \E id \in DOMAIN db["act"], action \in ValueACTIONS :
        Done(BaseStatus_patch(Begin, "act", action, id))

PatchToDo ==
    /\ scope \in {"todo", "value", "cascade", "remind", "merge", "chain"}
    /\ \E id \in DOMAIN db["todo"], action \in ToDoVerbs(scope) :
         Done(BaseStatus_patch(Begin, "todo", action, id))

PatchRoutine ==
    \E id \in DOMAIN db["routine"], action \in RoutineVerbs(scope) :
        Done(BaseStatus_patch(Begin, "routine", action, id))

PatchTask ==
    \E rid \in DOMAIN db["routine"], task_id \in 0..(MaxTasks - 1), action \in TaskVerbs(scope) :
        Done(TaskAction_patch(Begin, rid, task_id, action))

Next ==
    \/ PostArea
    \/ PostToDo
    \/ CreateAct
    \/ CreateRoutine
    \/ PatchArea
    \/ PatchAct
    \/ PatchToDo
    \/ PatchRoutine
    \/ PatchTask
    \/ RemindAll

Spec == Init /\ [][Next]_vars

(* ------------------------------ claims --------------------------------- *)

RoutineTasks(tables, rid) ==
    IF Has(tables["routine"][rid].data, "tasks") THEN tables["routine"][rid].data["tasks"] ELSE << >>

TaskIds(rid) == {i - 1 : i \in DOMAIN RoutineTasks(db, rid)}

Succeeded(W) == ~W.err /\ W.ret

Refused(W) == ~W.err /\ ~W.ret

(* The verbs that test a guard before they act.                            *)
GuardedStatus == StatusACTIONS \ {"remind"}

GuardedTask == TaskACTIONS \ {"remind"}

(* C1: in every routine with at least one task, at most one task has       *)
(* `start` set and `end` unset, after creation and any sequence of check() *)
(* calls, task actions and next.                                           *)
C1_SingleActiveTask ==
    \A rid \in DOMAIN db["routine"] :
        Cardinality({i \in DOMAIN RoutineTasks(db, rid) : Active(RoutineTasks(db, rid)[i])}) <= 1

(* C2: a successful task complete or task skip that leaves no task pending *)
(* and none active ends with the routine closed and `end` in its payload.  *)
C2_RollUp ==
    \A rid \in DOMAIN db["routine"] : \A task_id \in TaskIds(rid) : \A action \in {"complete", "skip"} :
        LET W == TaskAction_patch(Begin, rid, task_id, action)
        IN  (/\ Succeeded(W)
             /\ \A i \in DOMAIN RoutineTasks(W.tab, rid) :
                    ~Pending(RoutineTasks(W.tab, rid)[i]) /\ ~Active(RoutineTasks(W.tab, rid)[i]))
            => /\ W.tab["routine"][rid].status = "closed"
               /\ Has(W.tab["routine"][rid].data, "end")
               /\ W.saved["routine"][rid].status = "closed"
               /\ Has(W.saved["routine"][rid].data, "end")

(* C2 witness: the last open task of an opened routine is completed or     *)
(* skipped successfully and the routine closes in that call.               *)
C2_Witness ==
    \E rid \in DOMAIN db["routine"] : \E task_id \in TaskIds(rid) : \E action \in {"complete", "skip"} :
        LET W == TaskAction_patch(Begin, rid, task_id, action)
        IN  /\ db["routine"][rid].status = "opened"
            /\ Succeeded(W)
            /\ \A i \in DOMAIN RoutineTasks(W.tab, rid) : Has(RoutineTasks(W.tab, rid)[i], "end")
            /\ W.saved["routine"][rid].status = "closed"

(* C3: task uncomplete or task unskip, on a task whose guard lets it act   *)
(* and a routine whose status is closed, does not fail and leaves the      *)
(* routine opened with no `end` in its payload.                            *)
C3_Reopens ==
    \A rid \in DOMAIN db["routine"] : \A task_id \in TaskIds(rid) : \A action \in {"uncomplete", "unskip"} :
        LET W == TaskAction_patch(Begin, rid, task_id, action)
        IN  (db["routine"][rid].status = "closed" /\ ~Refused(W))
            => /\ Succeeded(W)
               /\ W.saved["routine"][rid].status = "opened"
               /\ ~Has(W.saved["routine"][rid].data, "end")

(* C4: a task that a step takes from pending to active (which is what      *)
(* check() does, and nothing else does) has no pending task before it in   *)
(* the list, whatever was called before.                                   *)
C4_LowestPendingFirst ==
    [][\A rid \in DOMAIN db'["routine"] : \A j \in DOMAIN RoutineTasks(db', rid) :
          (/\ rid \in DOMAIN db["routine"] => Pending(RoutineTasks(db, rid)[j])
           /\ Active(RoutineTasks(db', rid)[j]))
          => \A i \in 1..(j - 1) : ~Pending(RoutineTasks(db', rid)[i])]_vars

(* C4 witness: check() has activated a task that is not the first of the   *)
(* list: the tasks before it are over, the ones after it still pending.    *)
C4_Witness ==
    \E rid \in DOMAIN db["routine"] : \E j \in DOMAIN RoutineTasks(db, rid) :
        /\ j > 1
        /\ Active(RoutineTasks(db, rid)[j])
        /\ \A i \in 1..(j - 1) : Has(RoutineTasks(db, rid)[i], "end")

(* C5: whenever a guarded verb returns true, the same verb called again    *)
(* right away returns false and publishes nothing.                         *)
C5_Idempotent ==
    /\ \A kind \in {"todo", "routine"} : \A id \in DOMAIN db[kind] : \A action \in GuardedStatus :
         LET W1 == BaseStatus_patch(Begin, kind, action, id)
         IN  Succeeded(W1) =>
               LET W2 == BaseStatus_patch(Again(W1), kind, action, id)
               IN  Refused(W2) /\ W2.out = << >>
    /\ \A kind \in {"area", "act"} : \A id \in DOMAIN db[kind] : \A action \in ValueACTIONS :
         LET W1 == BaseStatus_patch(Begin, kind, action, id)
         IN  Succeeded(W1) =>
               LET W2 == BaseStatus_patch(Again(W1), kind, action, id)
               IN  Refused(W2) /\ W2.out = << >>
    /\ \A rid \in DOMAIN db["routine"] : \A task_id \in TaskIds(rid) : \A action \in GuardedTask :
         LET W1 == TaskAction_patch(Begin, rid, task_id, action)
         IN  Succeeded(W1) =>
               LET W2 == TaskAction_patch(Again(W1), rid, task_id, action)
               IN  Refused(W2) /\ W2.out = << >>

(* C5 witness: an entity verb, a value verb and a task verb each return    *)
(* true and then false when repeated.                                      *)
C5_Witness ==
    \/ \E id \in DOMAIN db["todo"] : \E action \in GuardedStatus :
         LET W1 == BaseStatus_patch(Begin, "todo", action, id)
         IN  /\ Succeeded(W1)
             /\ Refused(BaseStatus_patch(Again(W1), "todo", action, id))
             /\ Truthy(db["todo"][id].data, "paused")
    \/ \E rid \in DOMAIN db["routine"] : \E task_id \in TaskIds(rid) :
         LET W1 == TaskAction_patch(Begin, rid, task_id, "uncomplete")
         IN  /\ Succeeded(W1)
             /\ Refused(TaskAction_patch(Again(W1), rid, task_id, "uncomplete"))
             /\ db["routine"][rid].status = "closed"

(* C6: a guarded verb that returns false changes no record, creates none,  *)
(* commits nothing and publishes nothing.                                  *)
C6_RefusedIsNoOp ==
    /\ \A kind \in {"todo", "routine"} : \A id \in DOMAIN db[kind] : \A action \in GuardedStatus :
         LET W == BaseStatus_patch(Begin, kind, action, id)
         IN  Refused(W) => W.tab = db /\ W.saved = db /\ W.out = << >>
    /\ \A kind \in {"area", "act"} : \A id \in DOMAIN db[kind] : \A action \in ValueACTIONS :
         LET W == BaseStatus_patch(Begin, kind, action, id)
         IN  Refused(W) => W.tab = db /\ W.saved = db /\ W.out = << >>
    /\ \A rid \in DOMAIN db["routine"] : \A task_id \in TaskIds(rid) : \A action \in GuardedTask :
         LET W == TaskAction_patch(Begin, rid, task_id, action)
         IN  Refused(W) => W.tab = db /\ W.saved = db /\ W.out = << >>

(* C6 witness: a closed ToDo linked to an Area refuses complete, and a     *)
(* task that is over refuses complete.                                     *)
C6_Witness ==
    \/ \E id \in DOMAIN db["todo"] :
         /\ Has(db["todo"][id].data, "area")
         /\ Refused(BaseStatus_patch(Begin, "todo", "complete", id))
    \/ \E rid \in DOMAIN db["routine"] : \E task_id \in TaskIds(rid) :
         /\ Refused(TaskAction_patch(Begin, rid, task_id, "complete"))
         /\ Refused(TaskAction_patch(Begin, rid, task_id, "unskip"))

(* C7: on a ToDo or Routine no status verb fails, and unskip on a skipped  *)
(* entity, unexpire on an expired one, return true and leave the flag      *)
(* false, `end` absent and the status opened.                              *)
C7_VerbsNeverFail ==
    \A kind \in {"todo", "routine"} : \A id \in DOMAIN db[kind] :
        /\ \A action \in StatusACTIONS : ~BaseStatus_patch(Begin, kind, action, id).err
        /\ \A flag \in {"skipped", "expired"} :
             Truthy(db[kind][id].data, flag) =>
               LET W == BaseStatus_patch(Begin, kind, IF flag = "skipped" THEN "unskip" ELSE "unexpire", id)
               IN  /\ Succeeded(W)
                   /\ ~Truthy(W.saved[kind][id].data, flag)
                   /\ ~Has(W.saved[kind][id].data, "end")
                   /\ W.saved[kind][id].status = "opened"

(* C8: task unskip on a task whose `skipped` is true returns true and      *)
(* leaves the task not skipped and without `end`.                          *)
C8_TaskUnskip ==
    \A rid \in DOMAIN db["routine"] : \A task_id \in TaskIds(rid) :
        Truthy(RoutineTasks(db, rid)[task_id + 1], "skipped") =>
          LET W == TaskAction_patch(Begin, rid, task_id, "unskip")
          IN  /\ Succeeded(W)
              /\ ~Truthy(RoutineTasks(W.saved, rid)[task_id + 1], "skipped")
              /\ ~Has(RoutineTasks(W.saved, rid)[task_id + 1], "end")

(* C9: a ToDo or Routine has `end` in its payload exactly when its status  *)
(* is closed.                                                              *)
C9_EndIffClosed ==
    \A kind \in {"todo", "routine"} : \A id \in DOMAIN db[kind] :
        Has(db[kind][id].data, "end") <=> db[kind][id].status = "closed"

(* C9 witness: an entity that was closed by one verb and reopened by       *)
(* another (skipped, then uncompleted) and is closed again.                *)
C9_Witness ==
    \E kind \in {"todo", "routine"} : \E id \in DOMAIN db[kind] :
        /\ Truthy(db[kind][id].data, "skipped")
        /\ Truthy(db[kind][id].data, "expired")
        /\ Has(db[kind][id].data, "end")
        /\ db[kind][id].status = "closed"

(* C10: next completes the first active task, and only it, and returns     *)
(* true; with no active task (or no task list) it returns false, changes   *)
(* nothing and does not fail.                                              *)
C10_Next ==
    \A rid \in DOMAIN db["routine"] :
        LET W == BaseStatus_patch(Begin, "routine", "next", rid)
            before == RoutineTasks(db, rid)
        IN  IF \E i \in DOMAIN before : Active(before[i])
            THEN /\ Succeeded(W)
                 /\ Has(RoutineTasks(W.saved, rid)[FirstActive(before)], "end")
                 /\ \A i \in DOMAIN before \ {FirstActive(before)} :
                        Has(before[i], "end") <=> Has(RoutineTasks(W.saved, rid)[i], "end")
            ELSE Refused(W) /\ W.saved = db /\ W.tab = db /\ W.out = << >>

(* C11: right after create() of a routine with at least one supplied task, *)
(* none carrying `start`, the routine payload has `start`, the first task  *)
(* is active, every other task is pending, every task's `id` is its        *)
(* position and the routine status is opened.                              *)
C11_AfterCreate ==
    \A data \in RoutineDatas(scope) :
        (Has(data, "tasks") /\ Len(data["tasks"]) >= 1) =>
        \A order \in ToDosQueried(Begin, [person_id |-> Person1, data |-> data]) :
          LET W == RoutineAction_create(Begin, [person_id |-> Person1, data |-> data], order)
              tasks == RoutineTasks(W.saved, NewId(Begin, "routine"))
          IN  /\ ~W.err
              /\ Has(W.saved["routine"][NewId(Begin, "routine")].data, "start")
              /\ W.saved["routine"][NewId(Begin, "routine")].status = "opened"
              /\ Active(tasks[1])
              /\ \A i \in DOMAIN tasks : i > 1 => Pending(tasks[i])
              /\ \A i \in DOMAIN tasks : tasks[i]["id"] = i - 1

(* C12: on a task that carries a `todo` reference, a successful task       *)
(* complete leaves the linked ToDo closed with `end`, a successful task    *)
(* uncomplete leaves it opened without `end`, and task skip and unskip     *)
(* leave it as it was.                                                     *)
C12_LinkedToDo ==
    \A rid \in DOMAIN db["routine"] : \A task_id \in TaskIds(rid) :
        Has(RoutineTasks(db, rid)[task_id + 1], "todo") =>
          LET todo == RoutineTasks(db, rid)[task_id + 1]["todo"]
              Wc == TaskAction_patch(Begin, rid, task_id, "complete")
              Wu == TaskAction_patch(Begin, rid, task_id, "uncomplete")
          IN  /\ Succeeded(Wc) =>
                   /\ Wc.saved["todo"][todo].status = "closed"
                   /\ Has(Wc.saved["todo"][todo].data, "end")
              /\ Succeeded(Wu) =>
                   /\ Wu.saved["todo"][todo].status = "opened"
                   /\ ~Has(Wu.saved["todo"][todo].data, "end")
              /\ \A action \in {"skip", "unskip"} :
                   /\ TaskAction_patch(Begin, rid, task_id, action).tab["todo"] = db["todo"]
                   /\ TaskAction_patch(Begin, rid, task_id, action).saved["todo"] = db["todo"]

(* C12 witness: a completed task whose linked ToDo is closed is            *)
(* uncompleted successfully, and the ToDo reopens.                         *)
C12_Witness ==
    \E rid \in DOMAIN db["routine"] : \E task_id \in TaskIds(rid) :
        /\ Has(RoutineTasks(db, rid)[task_id + 1], "todo")
        /\ Has(RoutineTasks(db, rid)[task_id + 1], "end")
        /\ db["todo"][RoutineTasks(db, rid)[task_id + 1]["todo"]].status = "closed"
        /\ Succeeded(TaskAction_patch(Begin, rid, task_id, "uncomplete"))
        /\ TaskAction_patch(Begin, rid, task_id, "uncomplete").saved["todo"][
               RoutineTasks(db, rid)[task_id + 1]["todo"]].status = "opened"

(* The positions of W.out that hold a notification of the given kind.      *)
Published(W, kind) == {k \in DOMAIN W.out : W.out[k].kind = kind}

(* C13: completing a ToDo whose payload has `area` turns a negative Area   *)
(* positive with exactly one Area notification, a 'right'; a positive Area *)
(* is left as it is without notification; a complete that returns false,   *)
(* as a complete repeated on the closed ToDo does, leaves the Area as it   *)
(* is and publishes no Area notification.                                  *)
C13_AreaRightOnce ==
    \A id \in DOMAIN db["todo"] :
        (Has(db["todo"][id].data, "area") /\ db["todo"][id].data["area"] \in DOMAIN db["area"]) =>
          LET area == db["todo"][id].data["area"]
              W == BaseStatus_patch(Begin, "todo", "complete", id)
              W2 == BaseStatus_patch(Again(W), "todo", "complete", id)
          IN  /\ (Succeeded(W) /\ db["area"][area].status = "negative") =>
                   /\ W.saved["area"][area].status = "positive"
                   /\ Cardinality(Published(W, "area")) = 1
                   /\ \A k \in Published(W, "area") : W.out[k].action = "right" /\ W.out[k].id = area
              /\ (Succeeded(W) /\ db["area"][area].status = "positive") =>
                   /\ W.saved["area"] = db["area"]
                   /\ Published(W, "area") = {}
              /\ Refused(W) =>
                   /\ W.saved["area"] = db["area"]
                   /\ W.tab["area"] = db["area"]
                   /\ Published(W, "area") = {}
              /\ Succeeded(W) =>
                   /\ Refused(W2)
                   /\ W2.saved["area"] = W.saved["area"]
                   /\ Published(W2, "area") = {}

(* C13 witness: an open ToDo linked to a negative Area is completed and    *)
(* the Area turns positive.                                                *)
C13_Witness ==
    \E id \in DOMAIN db["todo"] :
        /\ Has(db["todo"][id].data, "area")
        /\ db["todo"][id].data["area"] \in DOMAIN db["area"]
        /\ db["area"][db["todo"][id].data["area"]].status = "negative"
        /\ Succeeded(BaseStatus_patch(Begin, "todo", "complete", id))
        /\ BaseStatus_patch(Begin, "todo", "complete", id).saved["area"][
               db["todo"][id].data["area"]].status = "positive"

(* C14: a ToDo complete that returns true on a ToDo whose payload has      *)
(* `act` creates exactly one Act, for the ToDo's person and positive       *)
(* whatever status the template names; a complete that returns false, and  *)
(* every other verb on that ToDo, creates none.                            *)
C14_OneActPerComplete ==
    \A id \in DOMAIN db["todo"] :
        Has(db["todo"][id].data, "act") =>
          LET W == BaseStatus_patch(Begin, "todo", "complete", id)
          IN  /\ Succeeded(W) =>
                   /\ Len(W.saved["act"]) = Len(db["act"]) + 1
                   /\ SubSeq(W.saved["act"], 1, Len(db["act"])) = db["act"]
                   /\ W.saved["act"][Len(db["act"]) + 1].person_id = db["todo"][id].person_id
                   /\ W.saved["act"][Len(db["act"]) + 1].status = "positive"
              /\ Refused(W) => W.saved["act"] = db["act"] /\ W.tab["act"] = db["act"]
              /\ \A action \in StatusACTIONS \ {"complete"} :
                   /\ BaseStatus_patch(Begin, "todo", action, id).saved["act"] = db["act"]
                   /\ BaseStatus_patch(Begin, "todo", action, id).tab["act"] = db["act"]

(* C14 witness: a ToDo whose `act` template names status negative has been *)
(* completed and the Act it created is there, and completing it again      *)
(* after an uncomplete creates a second Act.                               *)
C14_Witness ==
    \E id \in DOMAIN db["todo"] :
        /\ Has(db["todo"][id].data, "act")
        /\ Has(db["todo"][id].data["act"], "status")
        /\ db["todo"][id].status = "opened"
        /\ Len(db["act"]) = 1
        /\ db["act"][1].status = "positive"
        /\ Len(BaseStatus_patch(Begin, "todo", "complete", id).saved["act"]) = 2

(* C15: an Area wrong that returns true on an Area whose payload has       *)
(* `todo` creates exactly one ToDo, for the Area's person and with `area`  *)
(* = the Area's id in its payload; on an Area without `todo`, and when it  *)
(* returns false, it creates none.                                         *)
C15_WrongCreatesToDo ==
    \A id \in DOMAIN db["area"] :
        LET W == BaseStatus_patch(Begin, "area", "wrong", id)
        IN  /\ (Succeeded(W) /\ Has(db["area"][id].data, "todo")) =>
                 /\ Len(W.saved["todo"]) = Len(db["todo"]) + 1
                 /\ SubSeq(W.saved["todo"], 1, Len(db["todo"])) = db["todo"]
                 /\ W.saved["todo"][Len(db["todo"]) + 1].person_id = db["area"][id].person_id
                 /\ Has(W.saved["todo"][Len(db["todo"]) + 1].data, "area")
                 /\ W.saved["todo"][Len(db["todo"]) + 1].data["area"] = id
            /\ (Succeeded(W) /\ ~Has(db["area"][id].data, "todo")) =>
                 W.saved["todo"] = db["todo"] /\ W.tab["todo"] = db["todo"]
            /\ Refused(W) => W.saved["todo"] = db["todo"] /\ W.tab["todo"] = db["todo"]

(* C15 witness: a negative Area with a `todo` template, the ToDo its wrong *)
(* created, and wrong refused when called again.                           *)
C15_Witness ==
    \E id \in DOMAIN db["area"] : \E todo \in DOMAIN db["todo"] :
        /\ Has(db["area"][id].data, "todo")
        /\ db["area"][id].status = "negative"
        /\ db["todo"][todo].data["text"] = db["area"][id].data["todo"]["text"]
        /\ db["todo"][todo].data["area"] = id
        /\ Refused(BaseStatus_patch(Begin, "area", "wrong", id))

(* The position in W.out of the 'create' notification of the given row.    *)
CreatedAt(W, kind, id) ==
    {k \in DOMAIN W.out : W.out[k].kind = kind /\ W.out[k].action = "create" /\ W.out[k].id = id}

(* C16: Act create makes a ToDo, for the Act's person and from the         *)
(* payload's `todo` template, exactly when the new Act is negative and its *)
(* payload has `todo`, and publishes the Act's 'create' before the ToDo's; *)
(* wrong on an existing Act creates no ToDo.                               *)
C16_ActCreateToDo ==
    /\ \A data \in ActDatas : \A status \in {"positive", "negative"} :
         LET W == ActValue_create(Begin, [person_id |-> Person1, status |-> status, data |-> data])
             act == Len(db["act"]) + 1
             todo == Len(db["todo"]) + 1
         IN  /\ ~W.err
             /\ Len(W.saved["act"]) = act
             /\ W.saved["act"][act].status = status
             /\ CreatedAt(W, "act", act) # {}
             /\ IF status = "negative" /\ Has(data, "todo")
                THEN /\ Len(W.saved["todo"]) = todo
                     /\ SubSeq(W.saved["todo"], 1, Len(db["todo"])) = db["todo"]
                     /\ W.saved["todo"][todo].person_id = W.saved["act"][act].person_id
                     /\ W.saved["todo"][todo].data = data["todo"]
                     /\ CreatedAt(W, "todo", todo) # {}
                     /\ \A i \in CreatedAt(W, "act", act) : \A j \in CreatedAt(W, "todo", todo) : i < j
                ELSE /\ W.saved["todo"] = db["todo"]
                     /\ W.tab["todo"] = db["todo"]
                     /\ Published(W, "todo") = {}
    /\ \A id \in DOMAIN db["act"] :
         /\ BaseStatus_patch(Begin, "act", "wrong", id).saved["todo"] = db["todo"]
         /\ BaseStatus_patch(Begin, "act", "wrong", id).tab["todo"] = db["todo"]

(* C16 witness: a negative Act created with a `todo` template and the ToDo *)
(* made from it.                                                           *)
C16_Witness ==
    \E id \in DOMAIN db["act"] : \E todo \in DOMAIN db["todo"] :
        /\ db["act"][id].status = "negative"
        /\ Has(db["act"][id].data, "todo")
        /\ db["todo"][todo].data = db["act"][id].data["todo"]

(* C17: remind-all for a person returns true exactly when the person has   *)
(* an open ToDo; then it stamps `notified` and `updated` on that person's  *)
(* open ToDos and on no other ToDo and publishes one notification listing  *)
(* exactly those ToDos by non-increasing `created`; otherwise it publishes *)
(* nothing and changes nothing.                                            *)
C17_RemindAll ==
    \A data \in RemindDatas :
        LET open == {id \in DOMAIN db["todo"] :
                        db["todo"][id].person_id = PersonOf(Begin, data) /\ db["todo"][id].status = "opened"}
        IN  \A order \in ToDo_order_by(db, OpenToDos(db, PersonOf(Begin, data))) :
              LET W == ToDoCL_patch(Begin, data, order)
              IN  /\ ~W.err
                  /\ W.ret <=> open # {}
                  /\ W.ret =>
                       /\ W.saved = W.tab
                       /\ \A id \in DOMAIN db["todo"] :
                            IF id \in open
                            THEN /\ Has(W.saved["todo"][id].data, "notified")
                                 /\ W.saved["todo"][id].data["notified"] = clock
                                 /\ W.saved["todo"][id].updated = clock
                            ELSE W.saved["todo"][id] = db["todo"][id]
                       /\ Len(W.out) = 1
                       /\ W.out[1].kind = "todos"
                       /\ Len(W.out[1].todos) = Cardinality(open)
                       /\ {W.out[1].todos[k] : k \in DOMAIN W.out[1].todos} = open
                       /\ \A i, j \in DOMAIN W.out[1].todos :
                            i < j => db["todo"][W.out[1].todos[i]].created
                                       >= db["todo"][W.out[1].todos[j]].created
                  /\ ~W.ret => W.out = << >> /\ W.saved = db /\ W.tab = db

(* C17 witness: remind-all has stamped the two open ToDos of a person that *)
(* were created at different times, and not the third ToDo, which is       *)
(* closed or another person's.                                             *)
C17_Witness ==
    \E a, b, c \in DOMAIN db["todo"] :
        /\ a # b
        /\ db["todo"][a].person_id = db["todo"][b].person_id
        /\ db["todo"][a].status = "opened" /\ db["todo"][b].status = "opened"
        /\ db["todo"][a].created < db["todo"][b].created
        /\ Has(db["todo"][a].data, "notified") /\ Has(db["todo"][b].data, "notified")
        /\ db["todo"][a].updated = clock /\ db["todo"][b].updated = clock
        /\ ~Has(db["todo"][c].data, "notified")
        /\ db["todo"][c].updated = db["todo"][c].created

(* C18: a status verb, a value verb or a task verb that returns true has   *)
(* published a notification of the entity's kind ('task' for a task verb)  *)
(* with the verb as action, and the entity it belongs to has `notified`    *)
(* and `updated` at the time of the call; every task-level notification    *)
(* leaves that on the task's `notified` and the routine's `notified` and   *)
(* `updated` as well.                                                      *)
C18_VerbNotifies ==
    \A W0 \in {Begin, Later} :
        /\ \A kind \in {"todo", "routine", "area", "act"} : \A id \in DOMAIN db[kind] :
             \A action \in (IF kind \in {"todo", "routine"} THEN StatusACTIONS ELSE ValueACTIONS) :
               LET W == BaseStatus_patch(W0, kind, action, id)
               IN  Succeeded(W) =>
                     /\ \E k \in DOMAIN W.out :
                          W.out[k].kind = kind /\ W.out[k].action = action /\ W.out[k].id = id
                     /\ Has(W.saved[kind][id].data, "notified")
                     /\ W.saved[kind][id].data["notified"] = W0.t
                     /\ W.saved[kind][id].updated = W0.t
        /\ \A rid \in DOMAIN db["routine"] : \A task_id \in TaskIds(rid) : \A action \in TaskACTIONS :
               LET W == TaskAction_patch(W0, rid, task_id, action)
               IN  Succeeded(W) =>
                     /\ \E k \in DOMAIN W.out :
                          /\ W.out[k].kind = "task" /\ W.out[k].action = action
                          /\ W.out[k].id = rid /\ W.out[k].task = task_id
                     /\ \A k \in Published(W, "task") :
                          /\ Has(RoutineTasks(W.saved, rid)[W.out[k].task + 1], "notified")
                          /\ RoutineTasks(W.saved, rid)[W.out[k].task + 1]["notified"] = W0.t
                     /\ Has(W.saved["routine"][rid].data, "notified")
                     /\ W.saved["routine"][rid].data["notified"] = W0.t
                     /\ W.saved["routine"][rid].updated = W0.t

(* C18 witness: a task of a routine stamped earlier is completed at a      *)
(* later time, the next task is started by the same call, and both and the *)
(* routine carry the later time.                                           *)
C18_Witness ==
    \E rid \in DOMAIN db["routine"] : \E task_id \in TaskIds(rid) :
        LET W == TaskAction_patch(Later, rid, task_id, "complete")
        IN  /\ db["routine"][rid].updated = clock
            /\ Succeeded(W)
            /\ Cardinality(Published(W, "task")) = 2
            /\ W.saved["routine"][rid].updated = clock + 1
            /\ RoutineTasks(W.saved, rid)[task_id + 1]["notified"] = clock + 1

(* What a dispatched request must leave: nothing committed when the action *)
(* returned false or raised, everything it changed committed when it       *)
(* returned true.                                                          *)
CommittedIffUpdated(W) ==
    /\ Refused(W) => W.saved = db
    /\ W.saved # db => Succeeded(W)
    /\ Succeeded(W) => W.saved = W.tab

(* C19: a dispatched action request commits exactly when the action        *)
(* returned true: a request that returned false committed nothing, and one *)
(* that returned true has committed every change it made, on the entity,   *)
(* its tasks and the entities the cascade reached; a request that returns  *)
(* true once the clock has moved on always leaves a change.                *)
C19_CommitIffUpdated ==
    \A W0 \in {Begin, Later} :
        /\ \A kind \in {"todo", "routine", "area", "act"} : \A id \in DOMAIN db[kind] :
             \A action \in ActionsOf(kind) :
               /\ CommittedIffUpdated(BaseStatus_patch(W0, kind, action, id))
               /\ (W0 = Later /\ Succeeded(BaseStatus_patch(W0, kind, action, id)))
                    => BaseStatus_patch(W0, kind, action, id).saved # db
        /\ \A rid \in DOMAIN db["routine"] : \A task_id \in TaskIds(rid) : \A action \in TaskACTIONS :
               /\ CommittedIffUpdated(TaskAction_patch(W0, rid, task_id, action))
               /\ (W0 = Later /\ Succeeded(TaskAction_patch(W0, rid, task_id, action)))
                    => TaskAction_patch(W0, rid, task_id, action).saved # db
        /\ \A data \in RemindDatas :
             \A order \in ToDo_order_by(db, OpenToDos(db, PersonOf(W0, data))) :
               CommittedIffUpdated(ToDoCL_patch(W0, data, order))

(* C19 witness: completing a task linked to an open ToDo returns true with *)
(* the routine and the ToDo both changed and committed, while uncomplete   *)
(* on the same task returns false.                                         *)
C19_Witness ==
    \E rid \in DOMAIN db["routine"] : \E task_id \in TaskIds(rid) :
        LET W == TaskAction_patch(Begin, rid, task_id, "complete")
        IN  /\ Succeeded(W)
            /\ W.saved["todo"] # db["todo"]
            /\ W.saved["routine"] # db["routine"]
            /\ W.saved = W.tab
            /\ Refused(TaskAction_patch(Begin, rid, task_id, "uncomplete"))

(* C20: routine creation publishes a routine-level notification with       *)
(* action "start", and it comes before every task-level 'start' or 'pause' *)
(* notification of that routine.                                           *)
C20_StartBeforeTasks ==
    \A data \in RoutineDatas(scope) : \A order \in ToDosQueried(Begin, [person_id |-> Person1, data |-> data]) :
        LET W == RoutineAction_create(Begin, [person_id |-> Person1, data |-> data], order)
            rid == NewId(Begin, "routine")
        IN  ~W.err =>
              \E i \in DOMAIN W.out :
                  /\ W.out[i].kind = "routine" /\ W.out[i].action = "start" /\ W.out[i].id = rid
                  /\ \A j \in Published(W, "task") :
                        (W.out[j].id = rid /\ W.out[j].action \in {"start", "pause"}) => i < j

(* C21: a successful entity-level skip or complete on a ToDo or a Routine  *)
(* leaves the payload with `end` set, the status closed and `start` set.   *)
C21_ClosedWithStart ==
    \A kind \in {"todo", "routine"} : \A id \in DOMAIN db[kind] : \A action \in {"skip", "complete"} :
        LET W == BaseStatus_patch(Begin, kind, action, id)
        IN  Succeeded(W) =>
              /\ Has(W.saved[kind][id].data, "end")
              /\ W.saved[kind][id].status = "closed"
              /\ Has(W.saved[kind][id].data, "start")

(* C22: build() computes the payload by deep-merging the template and then *)
(* the caller's inline `data` over it: caller data wins on every key       *)
(* conflict, at the top and inside a nested payload, and a nested key that *)
(* only the template has survives; each of person_id, name, status,        *)
(* created, updated is taken from the caller's kwargs when present there,  *)
(* else from the merged data.                                              *)
C22_DeepMerge ==
    \A kwargs \in ToDoKwargs(scope) :
        LET built    == BaseStatus_build(Begin, kwargs)
            template == TemplateOf(Begin, kwargs)
            data     == IF Has(kwargs, "data") THEN kwargs["data"] ELSE EmptyDict
            nested   == {"act", "todo"}
            merged   == [k \in DOMAIN template \cup DOMAIN data |->
                            IF k \in DOMAIN template \cap DOMAIN data \cap nested
                            THEN Update(template[k], data[k])
                            ELSE IF k \in DOMAIN data THEN data[k] ELSE template[k]]
        IN  ~built.err =>
              /\ built.fields["data"] = merged
              /\ \A f \in {"person_id", "name", "status", "created", "updated"} :
                    /\ Has(kwargs, f) => built.fields[f] = kwargs[f]
                    /\ (~Has(kwargs, f) /\ Has(merged, f)) => built.fields[f] = merged[f]

(* C23: with an explicit person id among the caller's kwargs build() uses  *)
(* it and looks no name up: it succeeds with that id even when the merged  *)
(* data names a `person` that no Person has; the name is resolved only     *)
(* when no explicit person id is given.                                    *)
C23_ExplicitPerson ==
    \A kwargs \in ToDoKwargs(scope) :
        LET built == BaseStatus_build(Begin, kwargs)
        IN  /\ Has(kwargs, "person_id") =>
                 ~built.err /\ built.fields["person_id"] = kwargs["person_id"]
            /\ (~Has(kwargs, "person_id") /\ ~built.err /\ Has(built.fields["data"], "person")) =>
                 built.fields["person_id"] \in PersonsNamed(Begin, built.fields["data"]["person"])

(* The caller gives no person id and the merged data names a person that   *)
(* no Person has.                                                          *)
NamesNobody(W, kwargs) ==
    /\ ~Has(kwargs, "person_id")
    /\ Has(MergedData(TemplateOf(W, kwargs), kwargs), "person")
    /\ PersonsNamed(W, MergedData(TemplateOf(W, kwargs), kwargs)["person"]) = {}

(* What a failed create must leave: an exception, no row added or changed, *)
(* nothing committed and no notification published.                        *)
FailedClean(W) == W.err /\ W.tab = db /\ W.saved = db /\ W.out = << >>

(* C24: with no explicit person id and a merged data naming a `person`     *)
(* that does not exist, create() of an Area, an Act, a ToDo or a Routine   *)
(* fails: no record is persisted and no notification is published.         *)
C24_UnknownPersonFails ==
    \A kwargs \in ToDoKwargs(scope) :
        NamesNobody(Begin, kwargs) =>
          /\ FailedClean(BaseStatus_create(Begin, "area", kwargs))
          /\ FailedClean(BaseStatus_create(Begin, "todo", kwargs))
          /\ FailedClean(ActValue_create(Begin, kwargs))
          /\ FailedClean(RoutineAction_create(Begin, kwargs, << >>))

(* C24 witness: a ToDo made for the person its data names is there, and a  *)
(* create naming a person that does not exist fails on that database.      *)
C24_Witness ==
    /\ \E id \in DOMAIN db["todo"] :
          /\ Has(db["todo"][id].data, "person")
          /\ db["todo"][id].person_id \in PersonsNamed(Begin, db["todo"][id].data["person"])
    /\ \E kwargs \in ToDoKwargs(scope) :
          NamesNobody(Begin, kwargs) /\ FailedClean(ToDoAction_create(Begin, kwargs))

(* C25: when the merged routine data has `todos` true, the built task list *)
(* is exactly one task per open ToDo of the resolved person, in            *)
(* creation-descending order, each with `text` copied from the ToDo and    *)
(* `todo` = the ToDo's id, followed by the supplied tasks in their given   *)
(* order; closed ToDos and other persons' ToDos contribute no task.        *)
C25_ToDosPrepended ==
    \A data \in RoutineDatas(scope) :
      \A order \in ToDosQueried(Begin, [person_id |-> Person1, data |-> data]) :
        LET built    == RoutineAction_build(Begin, [person_id |-> Person1, data |-> data], order)
            tasks    == built.fields["data"]["tasks"]
            supplied == IF Has(data, "tasks") THEN data["tasks"] ELSE << >>
            mine     == {id \in DOMAIN db["todo"] :
                            db["todo"][id].person_id = Person1 /\ db["todo"][id].status = "opened"}
            n        == Cardinality(mine)
        IN  Truthy(data, "todos") =>
              /\ ~built.err
              /\ Len(tasks) = n + Len(supplied)
              /\ \A i \in 1..n : Has(tasks[i], "todo")
              /\ {tasks[i]["todo"] : i \in 1..n} = mine
              /\ \A i \in 1..n :
                    /\ tasks[i]["text"] = db["todo"][tasks[i]["todo"]].data["text"]
                    /\ \A j \in 1..n :
                          i < j => db["todo"][tasks[i]["todo"]].created
                                     >= db["todo"][tasks[j]["todo"]].created
              /\ \A j \in DOMAIN supplied : \A k \in DOMAIN supplied[j] :
                    k \in DOMAIN tasks[n + j] /\ tasks[n + j][k] = supplied[j][k]
              /\ \A j \in DOMAIN supplied : DOMAIN tasks[n + j] \subseteq DOMAIN supplied[j] \cup {"id"}

(* C25 witness: a routine made with `todos` has the person's two open      *)
(* ToDos as its first tasks, the later created first, then a supplied      *)
(* task, while a ToDo that is closed or another person's is in no task.    *)
C25_Witness ==
    \E rid \in DOMAIN db["routine"] :
        LET tasks == RoutineTasks(db, rid)
        IN  /\ Len(tasks) = 3
            /\ Has(tasks[1], "todo") /\ Has(tasks[2], "todo") /\ ~Has(tasks[3], "todo")
            /\ db["todo"][tasks[1]["todo"]].created > db["todo"][tasks[2]["todo"]].created
            /\ tasks[1]["text"] = db["todo"][tasks[1]["todo"]].data["text"]
            /\ \E c \in DOMAIN db["todo"] :
                  /\ c \notin {tasks[1]["todo"], tasks[2]["todo"]}
                  /\ db["todo"][c].status = "closed" \/ db["todo"][c].person_id # db["routine"][rid].person_id

(* C26: after build() the task ids of a routine with N tasks are exactly   *)
(* 0..N-1 in list order, also when ToDos were prepended and when supplied  *)
(* tasks carried an `id`; the task the task dispatch addresses by an id is *)
(* the task that carries that id.                                          *)
C26_DenseIds ==
    /\ \A data \in RoutineDatas(scope) :
         \A order \in ToDosQueried(Begin, [person_id |-> Person1, data |-> data]) :
           LET built == RoutineAction_build(Begin, [person_id |-> Person1, data |-> data], order)
           IN  (~built.err /\ Has(built.fields["data"], "tasks")) =>
                 \A i \in DOMAIN built.fields["data"]["tasks"] :
                     /\ Has(built.fields["data"]["tasks"][i], "id")
                     /\ built.fields["data"]["tasks"][i]["id"] = i - 1
    /\ \A rid \in DOMAIN db["routine"] : \A task_id \in TaskIds(rid) :
         LET W == TaskAction_patch(Later, rid, task_id, "remind")
         IN  Succeeded(W) =>
               \A i \in DOMAIN RoutineTasks(W.saved, rid) :
                   RoutineTasks(W.saved, rid)[i] # RoutineTasks(db, rid)[i]
                     => RoutineTasks(db, rid)[i]["id"] = task_id

(* What creation fixes of a routine's tasks: how many there are and, at    *)
(* each position, the task's `id`, `todo` reference and `text`.            *)
TaskFrame(tables, rid) ==
    [i \in DOMAIN RoutineTasks(tables, rid) |->
        [k \in DOMAIN RoutineTasks(tables, rid)[i] \cap {"id", "todo", "text"} |->
            RoutineTasks(tables, rid)[i][k]]]

(* C27: no routine verb, task verb, next or check() adds, removes or       *)
(* reorders the tasks of a routine or changes a task's `id` or `todo`      *)
(* reference after creation: every step leaves the length of the task list *)
(* and each position's id and todo as they were.                           *)
C27_TasksFixed ==
    [][\A rid \in DOMAIN db["routine"] :
          /\ rid \in DOMAIN db'["routine"]
          /\ Has(db'["routine"][rid].data, "tasks") <=> Has(db["routine"][rid].data, "tasks")
          /\ TaskFrame(db', rid) = TaskFrame(db, rid)]_vars

(* C27 witness: both tasks of a routine have been ended by task verbs, the *)
(* routine is closed, and the tasks still carry the ids 0 and 1.           *)
C27_Witness ==
    \E rid \in DOMAIN db["routine"] :
        /\ Len(RoutineTasks(db, rid)) = 2
        /\ db["routine"][rid].status = "closed"
        /\ \A i \in 1..2 :
              /\ Has(RoutineTasks(db, rid)[i], "end")
              /\ Has(RoutineTasks(db, rid)[i], "notified")
              /\ RoutineTasks(db, rid)[i]["id"] = i - 1

(* A request during which the clock moves on right after its drift-th      *)
(* read of the time (never when drift = 0).                                *)
Drifting(drift) == Session(db, clock, drift)

(* C28: all timestamps written during one action call are equal, even if   *)
(* the clock advances during the call: the `end` (and `start`) a           *)
(* transition sets and the `notified` and `updated` its notification       *)
(* writes carry the same value.                                            *)
C28_OneNow ==
    \A drift \in 0..MaxDrift :
        /\ \A kind \in {"todo", "routine"} : \A id \in DOMAIN db[kind] :
             \A action \in {"skip", "complete", "expire"} :
               LET W == BaseStatus_patch(Drifting(drift), kind, action, id)
               IN  Succeeded(W) =>
                     /\ W.saved[kind][id].data["end"] = W.saved[kind][id].data["notified"]
                     /\ W.saved[kind][id].data["notified"] = W.saved[kind][id].updated
        /\ \A rid \in DOMAIN db["routine"] : \A task_id \in TaskIds(rid) :
             \A action \in {"skip", "complete"} :
               LET W    == TaskAction_patch(Drifting(drift), rid, task_id, action)
                   task == RoutineTasks(W.saved, rid)[task_id + 1]
               IN  Succeeded(W) =>
                     /\ task["end"] = task["notified"]
                     /\ ~Has(RoutineTasks(db, rid)[task_id + 1], "start") => task["start"] = task["end"]

(* C29: routine-level remind, pause, unpause, skip, unskip, complete,      *)
(* uncomplete, expire and unexpire never modify an embedded task: every    *)
(* task's `start`, `end`, `paused`, `skipped` and `notified` (and every    *)
(* other key) is as it was, in the session and in what was committed,      *)
(* whether the verb acted, refused or raised.                              *)
C29_TasksUntouched ==
    \A rid \in DOMAIN db["routine"] : \A action \in StatusACTIONS :
        LET W == BaseStatus_patch(Later, "routine", action, rid)
        IN  /\ Has(W.tab["routine"][rid].data, "tasks") <=> Has(db["routine"][rid].data, "tasks")
            /\ RoutineTasks(W.tab, rid) = RoutineTasks(db, rid)
            /\ RoutineTasks(W.saved, rid) = RoutineTasks(db, rid)

(* C29 witness: a routine has been paused and completed by routine-level   *)
(* verbs while its first task is still started and not ended, not paused,  *)
(* and its second task has not started.                                    *)
C29_Witness ==
    \E rid \in DOMAIN db["routine"] :
        /\ Truthy(db["routine"][rid].data, "paused")
        /\ db["routine"][rid].status = "closed"
        /\ Len(RoutineTasks(db, rid)) = 2
        /\ Active(RoutineTasks(db, rid)[1]) /\ ~Has(RoutineTasks(db, rid)[1], "paused")
        /\ Pending(RoutineTasks(db, rid)[2])

(* The ToDo's `data.area` references an Area that does not exist.          *)
AreaMissing(id) ==
    /\ Has(db["todo"][id].data, "area")
    /\ db["todo"][id].data["area"] \notin DOMAIN db["area"]

(* The request failed and the ToDo's persisted status and `end` are what   *)
(* they were.                                                              *)
FailedKeeping(W, id) ==
    /\ W.err
    /\ W.saved["todo"][id].status = db["todo"][id].status
    /\ Has(W.saved["todo"][id].data, "end") <=> Has(db["todo"][id].data, "end")
    /\ Has(db["todo"][id].data, "end") => W.saved["todo"][id].data["end"] = db["todo"][id].data["end"]

(* C30 as stated: completing a ToDo whose `data.area` references an Area   *)
(* that does not exist surfaces a failure to the caller, and the ToDo's    *)
(* persisted status and `end` are the same as before the call, whatever    *)
(* state the ToDo is in.                                                   *)
C30_AnyComplete ==
    \A id \in DOMAIN db["todo"] :
        AreaMissing(id) => FailedKeeping(BaseStatus_patch(Later, "todo", "complete", id), id)

(* C30: completing a ToDo that is not already closed with `end` set and    *)
(* whose `data.area` references an Area that does not exist surfaces a     *)
(* failure to the caller instead of skipping the cascade, and the ToDo's   *)
(* persisted status and `end` are the same as before the call; on a ToDo   *)
(* already closed with `end` set, complete is refused before the cascade.  *)
C30_MissingAreaFails ==
    \A id \in DOMAIN db["todo"] :
        AreaMissing(id) =>
          IF ~Has(db["todo"][id].data, "end") \/ db["todo"][id].status # "closed"
          THEN FailedKeeping(BaseStatus_patch(Later, "todo", "complete", id), id)
               /\ BaseStatus_patch(Later, "todo", "complete", id).saved = db
          ELSE Refused(BaseStatus_patch(Later, "todo", "complete", id))
               /\ BaseStatus_patch(Later, "todo", "complete", id).saved = db

(* C30 witness: an open ToDo references an Area that is not there; its     *)
(* complete fails after the 'complete' notification went out, and nothing  *)
(* of it is persisted.                                                     *)
C30_Witness ==
    \E id \in DOMAIN db["todo"] :
        LET W == BaseStatus_patch(Later, "todo", "complete", id)
        IN  /\ AreaMissing(id)
            /\ db["todo"][id].status = "opened" /\ ~Has(db["todo"][id].data, "end")
            /\ W.err /\ W.saved = db
            /\ W.tab["todo"][id].status = "closed"
            /\ Len(W.out) = 1

(* The session check() is called in by task skip and task complete at a    *)
(* later time: task i of the routine has just been given its `end`.        *)
JustEnded(rid, i) == SetTask(Later, rid, i, "end", Later.t)

(* C31: when check() activates a task it sets that task's `start` and      *)
(* publishes exactly one task-level notification, for that task: 'pause'   *)
(* if the task has `paused` true, otherwise 'start'; no other task is      *)
(* modified.  The task is the first pending one, and check() is called     *)
(* right after the active task got its `end`.                              *)
C31_Activation ==
    \A rid \in DOMAIN db["routine"] : \A i \in DOMAIN RoutineTasks(db, rid) :
        LET W0    == JustEnded(rid, i)
            W     == RoutineAction_check(W0, rid)
            before == RoutineTasks(W0.tab, rid)
            after  == RoutineTasks(W.tab, rid)
        IN  (/\ Active(RoutineTasks(db, rid)[i])
             /\ \A k \in DOMAIN before : ~Active(before[k])
             /\ \E k \in DOMAIN before : Pending(before[k])) =>
              \E j \in DOMAIN before :
                  /\ Pending(before[j]) /\ \A k \in DOMAIN before : k < j => ~Pending(before[k])
                  /\ ~W.err
                  /\ Has(after[j], "start") /\ after[j]["start"] = W0.t
                  /\ Len(W.out) = 1
                  /\ W.out[1].kind = "task" /\ W.out[1].id = rid /\ W.out[1].task = j - 1
                  /\ W.out[1].action = IF Truthy(before[j], "paused") THEN "pause" ELSE "start"
                  /\ \A k \in DOMAIN before : k # j => after[k] = before[k]
                  /\ Len(after) = Len(before)

(* C31 witness: the first task of a routine has ended and check() has      *)
(* started the second, which is flagged paused, at the time the first      *)
(* ended.                                                                  *)
C31_Witness ==
    \E rid \in DOMAIN db["routine"] :
        /\ Len(RoutineTasks(db, rid)) = 2
        /\ Has(RoutineTasks(db, rid)[1], "end")
        /\ Active(RoutineTasks(db, rid)[2])
        /\ Truthy(RoutineTasks(db, rid)[2], "paused")
        /\ RoutineTasks(db, rid)[2]["start"] = RoutineTasks(db, rid)[1]["end"]

(* C32: check() changes nothing and publishes no notification when the     *)
(* routine has no task list or when some task is already active; calling   *)
(* it again in such a state is a no-op each time.                          *)
C32_CheckNoOp ==
    \A rid \in DOMAIN db["routine"] :
        (\/ ~Has(db["routine"][rid].data, "tasks")
         \/ \E i \in DOMAIN RoutineTasks(db, rid) : Active(RoutineTasks(db, rid)[i])) =>
          /\ RoutineAction_check(Later, rid) = Later
          /\ RoutineAction_check(RoutineAction_check(Later, rid), rid) = Later

(* C32 witness: a routine whose first task is active and whose second is   *)
(* pending, which check() leaves pending.                                  *)
C32_Witness ==
    \E rid \in DOMAIN db["routine"] :
        /\ Len(RoutineTasks(db, rid)) = 2
        /\ Active(RoutineTasks(db, rid)[1])
        /\ Pending(RoutineTasks(db, rid)[2])
        /\ Pending(RoutineTasks(RoutineAction_check(Later, rid).tab, rid)[2])
        /\ RoutineAction_check(Later, rid).out = << >>

(* `next` requests made one after the other on routine rid of N tasks,     *)
(* W being the request that ended the k-th (the creation when k = 0): the  *)
(* first k tasks and no other have `end`, the routine is closed with `end` *)
(* once k = N and open before, the next request returns true while k < N,  *)
(* and false without a change, twice over, once k = N.                     *)
RECURSIVE NextRun(_, _, _, _)
NextRun(W, rid, k, N) ==
    /\ \A i \in 1..N : Has(RoutineTasks(W.saved, rid)[i], "end") <=> i <= k
    /\ W.saved["routine"][rid].status = IF k = N THEN "closed" ELSE "opened"
    /\ Has(W.saved["routine"][rid].data, "end") <=> k = N
    /\ Bind(BaseStatus_patch(Again(W), "routine", "next", rid), LAMBDA A :
          IF k < N
          THEN Succeeded(A) /\ NextRun(A, rid, k + 1, N)
          ELSE /\ Refused(A) /\ A.saved = W.saved
               /\ Bind(BaseStatus_patch(Again(A), "routine", "next", rid), LAMBDA B :
                     Refused(B) /\ B.saved = W.saved))

(* The routine payloads a caller creates in this scope, also flagged       *)
(* paused, with at least one task and every `todo` reference to a ToDo     *)
(* that exists.                                                            *)
NextDatas ==
    {data \in RoutineDatas(scope) \cup {Put(d, "paused", TRUE) : d \in RoutineDatas(scope)} :
        /\ Has(data, "tasks") \/ Truthy(data, "todos")
        /\ Has(data, "tasks") =>
             \A i \in DOMAIN data["tasks"] :
                 Has(data["tasks"][i], "todo") => data["tasks"][i]["todo"] \in DOMAIN db["todo"]}

Stage(m, rid, i) ==
    CASE m.kind = "task" /\ m.action = "complete" /\ m.id = rid /\ m.task = i - 1 -> 1
      [] m.kind = "task" /\ m.action \in {"start", "pause"} /\ m.id = rid /\ m.task # i - 1 -> 2
      [] m.kind = "routine" /\ m.action = "complete" /\ m.id = rid -> 2
      [] m.kind = "todo" /\ m.action = "complete" -> 3
      [] m.kind = "area" /\ m.action = "right" -> 4
      [] m.kind = "act" /\ m.action = "create" -> 5
      [] OTHER -> 0

(* The notifications of W are those of a task complete on task i, in the   *)
(* order of their stages, the ToDo's, Area's and Act's only for a task     *)
(* with `todo`, and about the ToDo the task names; check() publishes only  *)
(* when no other task is active, and always then on an open routine.       *)
InCompleteOrder(W, rid, i) ==
    /\ Len(W.out) >= 1
    /\ Stage(W.out[1], rid, i) = 1
    /\ \A k \in DOMAIN W.out : Stage(W.out[k], rid, i) # 0
    /\ \A k \in DOMAIN W.out : \A l \in DOMAIN W.out :
           k < l => Stage(W.out[k], rid, i) < Stage(W.out[l], rid, i)
    /\ ~Has(RoutineTasks(db, rid)[i], "todo") =>
           \A k \in DOMAIN W.out : Stage(W.out[k], rid, i) <= 2
    /\ (\E k \in DOMAIN W.out : Stage(W.out[k], rid, i) = 2) =>
           \A j \in DOMAIN RoutineTasks(db, rid) : j # i => ~Active(RoutineTasks(db, rid)[j])
    /\ (/\ db["routine"][rid].status = "opened"
        /\ \A j \in DOMAIN RoutineTasks(db, rid) : j # i => ~Active(RoutineTasks(db, rid)[j])) =>
           \E k \in DOMAIN W.out : Stage(W.out[k], rid, i) = 2
    /\ \A k \in DOMAIN W.out :
           Stage(W.out[k], rid, i) = 3 => W.out[k].id = RoutineTasks(db, rid)[i]["todo"]

(* C34: a successful task complete, asked for by task id or through next,  *)
(* publishes the task's 'complete' first, then what check() publishes (the *)
(* next task's 'start' or 'pause', or the routine's 'complete'), then, and *)
(* only for a task with `todo`, the linked ToDo's 'complete', the Area's   *)
(* 'right' and the Act's 'create', each at most once and in this order.    *)
C34_NotificationOrder ==
    \A rid \in DOMAIN db["routine"] :
        /\ \A task_id \in TaskIds(rid) :
               Succeeded(TaskAction_patch(Begin, rid, task_id, "complete")) =>
                   InCompleteOrder(TaskAction_patch(Begin, rid, task_id, "complete"), rid, task_id + 1)
        /\ (Has(db["routine"][rid].data, "tasks")
              /\ Succeeded(BaseStatus_patch(Begin, "routine", "next", rid))) =>
               InCompleteOrder(BaseStatus_patch(Begin, "routine", "next", rid), rid,
                               FirstActive(RoutineTasks(db, rid)))

(* C34 witness: the first of two tasks is linked to an open ToDo with an   *)
(* Act template and a negative Area; completing it publishes all five      *)
(* notifications, the second task's 'start' second and the Act's 'create'  *)
(* last.                                                                   *)
C34_Witness ==
    \E rid \in DOMAIN db["routine"] :
        /\ Len(RoutineTasks(db, rid)) = 2
        /\ Has(RoutineTasks(db, rid)[1], "todo")
        /\ Succeeded(TaskAction_patch(Begin, rid, 0, "complete"))
        /\ Len(TaskAction_patch(Begin, rid, 0, "complete").out) = 5
        /\ TaskAction_patch(Begin, rid, 0, "complete").out[2] =
               [kind |-> "task", action |-> "start", id |-> rid, task |-> 1]
        /\ TaskAction_patch(Begin, rid, 0, "complete").out[5].kind = "act"

(* The call activated a task of the routine: a task pending before it has  *)
(* `start` after it, or a task 'start' or 'pause' was published that the   *)
(* pause verb itself did not ask for.                                      *)
Activated(W, rid, action) ==
    \/ \E i \in DOMAIN RoutineTasks(db, rid) :
           /\ Pending(RoutineTasks(db, rid)[i])
           /\ i \in DOMAIN RoutineTasks(W.tab, rid)
           /\ ~Pending(RoutineTasks(W.tab, rid)[i])
    \/ \E k \in DOMAIN W.out :
           /\ W.out[k].kind = "task"
           /\ W.out[k].action = "start" \/ (W.out[k].action = "pause" /\ action # "pause")

(* C35: while a routine's status is 'closed', as after a routine-level     *)
(* skip, complete or expire, no next and no task action makes check() set  *)
(* `start` on a pending task of it or publish a task 'start' or 'pause'.   *)
C35_ClosedActivatesNothing ==
    \A rid \in DOMAIN db["routine"] :
        db["routine"][rid].status = "closed" =>
            /\ \A task_id \in TaskIds(rid), action \in TaskACTIONS :
                   ~Activated(TaskAction_patch(Begin, rid, task_id, action), rid, action)
            /\ ~Activated(BaseStatus_patch(Begin, "routine", "next", rid), rid, "next")

(* C36: in every reachable state of a run without routine-level verbs      *)
(* (routines are created, tasks are acted on, next is called, ToDos are    *)
(* completed and uncompleted), a routine created with status 'opened' and  *)
(* at least one task is 'closed' if and only if every task has `end`.      *)
C36_ClosedIffAllEnded ==
    scope # "routine" =>
      \A rid \in DOMAIN db["routine"] :
          Len(RoutineTasks(db, rid)) >= 1 =>
              (db["routine"][rid].status = "closed"
                 <=> \A i \in DOMAIN RoutineTasks(db, rid) : Has(RoutineTasks(db, rid)[i], "end"))

(* C36 witness: a routine of two tasks has been closed by ending both, and *)
(* uncompleting the second task reopens it.                                *)
C36_Witness ==
    /\ scope # "routine"
    /\ \E rid \in DOMAIN db["routine"] :
          /\ Len(RoutineTasks(db, rid)) = 2
          /\ db["routine"][rid].status = "closed"
          /\ \A i \in 1..2 : Has(RoutineTasks(db, rid)[i], "end")
          /\ Succeeded(TaskAction_patch(Begin, rid, 1, "uncomplete"))
          /\ TaskAction_patch(Begin, rid, 1, "uncomplete").saved["routine"][rid].status = "opened"
          /\ ~Has(RoutineTasks(TaskAction_patch(Begin, rid, 1, "uncomplete").saved, rid)[2], "end")

(* C37: create() of a routine whose built task list is there and empty     *)
(* closes the routine during creation: it is saved 'closed' with `end`,    *)
(* and a routine 'complete' follows the 'create' notification; a routine   *)
(* built without a `tasks` key is saved 'opened' without `end` and only    *)
(* its 'create' is published.                                              *)
C37_EmptyTaskList ==
    \A data \in RoutineDatas(scope) :
        \A order \in ToDosQueried(Begin, [person_id |-> Person1, data |-> data]) :
            Bind(RoutineAction_build(Begin, [person_id |-> Person1, data |-> data], order), LAMBDA built :
            Bind(RoutineAction_create(Begin, [person_id |-> Person1, data |-> data], order), LAMBDA W :
            Bind(NewId(Begin, "routine"), LAMBDA rid :
                (~built.err /\ ~W.err) =>
                    /\ rid \in DOMAIN W.saved["routine"]
                    /\ (Has(built.fields["data"], "tasks") /\ built.fields["data"]["tasks"] = << >>) =>
                           /\ W.saved["routine"][rid].status = "closed"
                           /\ Has(W.saved["routine"][rid].data, "end")
                           /\ W.out = <<[kind |-> "routine", action |-> "create", id |-> rid, task |-> NoTask],
                                        [kind |-> "routine", action |-> "complete", id |-> rid, task |-> NoTask]>>
                    /\ ~Has(built.fields["data"], "tasks") =>
                           /\ W.saved["routine"][rid].status = "opened"
                           /\ ~Has(W.saved["routine"][rid].data, "end")
                           /\ W.out = <<[kind |-> "routine", action |-> "create", id |-> rid, task |-> NoTask]>>)))

(* C37 witness: a routine created with `todos` for a person without open   *)
(* ToDos has an empty task list and is closed with `end`, never skipped or *)
(* expired.                                                                *)
C37_Witness ==
    \E rid \in DOMAIN db["routine"] :
        /\ Has(db["routine"][rid].data, "tasks")
        /\ db["routine"][rid].data["tasks"] = << >>
        /\ Truthy(db["routine"][rid].data, "todos")
        /\ db["routine"][rid].status = "closed"
        /\ Has(db["routine"][rid].data, "end")
        /\ ~Has(db["routine"][rid].data, "skipped")
        /\ ~Has(db["routine"][rid].data, "expired")

(* The cascade of the call that ended as W stayed within b: at most        *)
(* b[kind] notifications of each kind, at most b.todos new ToDos and       *)
(* b.acts new Acts, every new Act positive when b.positive, and no row of  *)
(* another table added or removed.                                         *)
Within(W, b) ==
    /\ \A kind \in {"task", "routine", "todo", "area", "act"} :
           Cardinality(Published(W, kind)) <= b[kind]
    /\ \A k \in DOMAIN W.out : W.out[k].kind \in {"task", "routine", "todo", "area", "act"}
    /\ Len(W.tab["todo"]) >= Len(db["todo"])
    /\ Len(W.tab["todo"]) <= Len(db["todo"]) + b.todos
    /\ Len(W.tab["act"]) >= Len(db["act"])
    /\ Len(W.tab["act"]) <= Len(db["act"]) + b.acts
    /\ b.positive => \A id \in DOMAIN W.tab["act"] :
           id > Len(db["act"]) => W.tab["act"][id].status = "positive"
    /\ Len(W.tab["routine"]) = Len(db["routine"])
    /\ Len(W.tab["area"]) = Len(db["area"])
    /\ b.task = 0 /\ b.routine = 0 => W.tab["routine"] = db["routine"]

(* C38: every action call ends after a bounded cascade. A task verb or     *)
(* next publishes at most two task notifications (its own and the one of   *)
(* check()), one routine, one ToDo, one Area and one Act notification,     *)
(* creates at most one Act, positive, and no ToDo. A ToDo verb touches no  *)
(* routine, publishes at most one ToDo, one Area and one Act notification, *)
(* creates at most one Act, positive, and no ToDo. An Area verb and an Act *)
(* create make at most one ToDo, whose 'create' is the last notification,  *)
(* and touch no routine; an Act verb creates nothing.                      *)
C38_BoundedCascade ==
    /\ \A rid \in DOMAIN db["routine"] :
         /\ \A task_id \in TaskIds(rid), action \in TaskACTIONS :
                Within(TaskAction_patch(Begin, rid, task_id, action),
                       [task |-> 2, routine |-> 1, todo |-> 1, area |-> 1, act |-> 1,
                        todos |-> 0, acts |-> 1, positive |-> TRUE])
         /\ \A action \in RoutineACTIONS :
                Within(BaseStatus_patch(Begin, "routine", action, rid),
                       [task |-> 2, routine |-> 1, todo |-> 1, area |-> 1, act |-> 1,
                        todos |-> 0, acts |-> 1, positive |-> TRUE])
    /\ \A id \in DOMAIN db["todo"] : \A action \in StatusACTIONS :
           Within(BaseStatus_patch(Begin, "todo", action, id),
                  [task |-> 0, routine |-> 0, todo |-> 1, area |-> 1, act |-> 1,
                   todos |-> 0, acts |-> 1, positive |-> TRUE])
    /\ \A id \in DOMAIN db["area"] : \A action \in ValueACTIONS :
           Bind(BaseStatus_patch(Begin, "area", action, id), LAMBDA W :
               /\ Within(W, [task |-> 0, routine |-> 0, todo |-> 1, area |-> 1, act |-> 0,
                             todos |-> 1, acts |-> 0, positive |-> TRUE])
               /\ \A k \in Published(W, "todo") : k = Len(W.out) /\ W.out[k].action = "create")
    /\ \A id \in DOMAIN db["act"] : \A action \in ValueACTIONS :
           Within(BaseStatus_patch(Begin, "act", action, id),
                  [task |-> 0, routine |-> 0, todo |-> 0, area |-> 0, act |-> 1,
                   todos |-> 0, acts |-> 0, positive |-> TRUE])
    /\ \A data \in ActDatas : \A status \in {"positive", "negative"} :
           Bind(ActValue_create(Begin, [person_id |-> Person1, status |-> status, data |-> data]), LAMBDA W :
               /\ Within(W, [task |-> 0, routine |-> 0, todo |-> 1, area |-> 0, act |-> 1,
                             todos |-> 1, acts |-> 1, positive |-> FALSE])
               /\ \A k \in Published(W, "todo") : k = Len(W.out) /\ W.out[k].action = "create")

(* C38 witness: a task is linked to an open ToDo whose `act` template      *)
(* names status negative and carries a `todo` template; completing the     *)
(* task publishes the Act's 'create' last, the Act is positive and no ToDo *)
(* is made.                                                                *)
C38_Witness ==
    \E rid \in DOMAIN db["routine"] : \E task_id \in TaskIds(rid) :
        /\ Has(RoutineTasks(db, rid)[task_id + 1], "todo")
        /\ RoutineTasks(db, rid)[task_id + 1]["todo"] \in DOMAIN db["todo"]
        /\ Has(db["todo"][RoutineTasks(db, rid)[task_id + 1]["todo"]].data, "act")
        /\ Has(db["todo"][RoutineTasks(db, rid)[task_id + 1]["todo"]].data["act"], "todo")
        /\ Succeeded(TaskAction_patch(Begin, rid, task_id, "complete"))
        /\ Len(TaskAction_patch(Begin, rid, task_id, "complete").tab["act"]) = Len(db["act"]) + 1
        /\ Len(TaskAction_patch(Begin, rid, task_id, "complete").tab["todo"]) = Len(db["todo"])

(* The calls a request can make on the database: every verb on every row,  *)
(* every task verb on every task, the ToDo creates of the scope, and Act   *)
(* create, also with a `todo` template that names a person nobody has.     *)
Requests ==
    {BaseStatus_patch(Begin, "routine", action, id) : id \in DOMAIN db["routine"], action \in RoutineACTIONS}
    \cup {BaseStatus_patch(Begin, "todo", action, id) : id \in DOMAIN db["todo"], action \in StatusACTIONS}
    \cup {BaseStatus_patch(Begin, kind, action, id) :
              kind \in {"area"}, id \in DOMAIN db["area"], action \in ValueACTIONS}
    \cup {BaseStatus_patch(Begin, kind, action, id) :
              kind \in {"act"}, id \in DOMAIN db["act"], action \in ValueACTIONS}
    \cup UNION {{TaskAction_patch(Begin, rid, task_id, action) : task_id \in TaskIds(rid), action \in TaskACTIONS} :
                    rid \in DOMAIN db["routine"]}
    \cup {ToDoAction_create(Begin, kwargs) : kwargs \in ToDoKwargs(scope)}
    \cup {ActValue_create(Begin, [person_id |-> Person1, status |-> status, data |-> data]) :
              status \in {"positive", "negative"},
              data \in ActDatas \cup {[text |-> "hey", todo |-> [text |-> "test", person |-> "nobody"]]}}

(* C39: a request that fails with an error persists none of its changes    *)
(* and has published no notification.                                      *)
C39_AllOrNothing ==
    \A W \in Requests : W.err => (W.saved = db /\ W.out = << >>)

(* The requests on a routine that complete a task: next, and complete of   *)
(* each task.                                                              *)
Completes(rid) ==
    {[verb |-> "next", task_id |-> NoTask]}
    \cup {[verb |-> "complete", task_id |-> task_id] : task_id \in TaskIds(rid)}

(* The request c on routine rid, made in the session W.                    *)
Call(W, rid, c) ==
    IF c.verb = "next"
    THEN BaseStatus_patch(W, "routine", "next", rid)
    ELSE TaskAction_patch(W, rid, c.task_id, c.verb)

(* The 'complete' notifications about task i of routine rid among out.     *)
CompletesOf(out, rid, i) ==
    {k \in DOMAIN out : out[k] = [kind |-> "task", action |-> "complete", id |-> rid, task |-> i - 1]}

(* C40: two requests on the same routine that each load it in a session of *)
(* their own before the other commits publish what some serial execution   *)
(* of the two publishes, and no task gets two 'complete' notifications.    *)
C40_Serialisable ==
    \A rid \in DOMAIN db["routine"] : \A c1 \in Completes(rid), c2 \in Completes(rid) :
        Bind(Call(Begin, rid, c1), LAMBDA A :
        Bind(Call(Begin, rid, c2), LAMBDA B :
            /\ \/ B.out = Call(Again(A), rid, c2).out
               \/ A.out = Call(Again(B), rid, c1).out
            /\ \A i \in DOMAIN RoutineTasks(db, rid) :
                   Cardinality(CompletesOf(A.out \o B.out, rid, i)) <= 1))

====
